---- MODULE Spec2Model ----
(***************************************************************************)
(* Model of the rtsched resource model (src/rsrc.rs), the bound algebra    *)
(* and greedy blocking operator (src/sharing.rs) and the protocol          *)
(* analyzers (src/proto).                                                  *)
(*                                                                         *)
(* Indices (task, resource) are 0-based as in the source; Rust slices and  *)
(* vectors are TLA+ sequences, so element i of a slice s is s[i + 1].      *)
(*                                                                         *)
(* usize is modelled with a reduced width of UsizeBits bits for the stored *)
(* request counts and the resource counter, where the source documents an  *)
(* overflow; Time (u64) and the Bound arithmetic are unbounded naturals.   *)
(***************************************************************************)
EXTENDS Integers, Sequences, FiniteSets, TLC

\* ------------------------------------------------------------------ bounds
NumTasks == 2
MaxOps == 3
MaxRsrc == 2
MaxLength == 2
UsizeBits == 2
MaxCpus == 3
MaxEntries == 3
MaxLimit == 4
MaxSlots == 4
MaxBound == 2
MaxSoftTasks == 2

UsizeMax == (2 ^ UsizeBits) - 1

\* ------------------------------------------------------------------ state
VARIABLES
    sys,              \* the System<K>: [kind, tasks, num_rsrc, reqs]
    overflow_checks,  \* whether the build checks integer overflow
    pc,               \* "idle", inside run ("pass", "post") or "panicked"
    ret,              \* the last call: its name, arguments and result
    nops,             \* number of mutating calls made so far
    an,               \* run: the analyzer `an`
    by_rsrc,          \* run: the local `by_rsrc` handed to every pass
    out,              \* run: the results collected so far
    calls             \* run: the analyzer methods invoked so far, in order

vars == <<sys, overflow_checks, pc, ret, nops, an, by_rsrc, out, calls>>

\* ------------------------------------------------------------ small helpers
Max(a, b) == IF a >= b THEN a ELSE b
Min(a, b) == IF a <= b THEN a ELSE b

At(s, i) == s[i + 1]

\* ------------------------------------------------------------- data model
Task(period, cost, deadline, priority) ==
    [period |-> period, cost |-> cost, deadline |-> deadline, priority |-> priority]

Request(num, length) == [num |-> num, length |-> length]

RequestDefault == Request(0, 0)

RwPair(read, write) == [read |-> read, write |-> write]

TaskRequest(task, req) == [task |-> task, req |-> req]

StoredDefault(K) ==
    IF K = "Rw" THEN RwPair(RequestDefault, RequestDefault) ELSE RequestDefault

System(K, ts, n, rs) == [kind |-> K, tasks |-> ts, num_rsrc |-> n, reqs |-> rs]

\* The task slices a System is built over.
TaskSlices ==
    { [i \in 1 .. NumTasks |-> Task(10, 3, 10, 0)],
      [i \in 1 .. NumTasks |-> Task(10, 3, 10, i)] }

\* The Requests handed to add_req / add_read / add_write.
RequestInputs ==
    { Request(n, l) : n \in {1, UsizeMax}, l \in 1 .. MaxLength }

\* ------------------------------------------------------- usize arithmetic
WouldOverflow(a, b) == a + b > UsizeMax

WrappingAdd(a, b) == (a + b) % (UsizeMax + 1)

\* ------------------------------------------------------------ System<K>
new(K, ts) == System(K, ts, 0, [i \in 1 .. Len(ts) |-> << >>])

num_tasks(s) == Len(s.tasks)

task(s, i) == At(s.tasks, i)

reqs_by(s, i) == At(s.reqs, i)

\* A call either returns (panic = FALSE) with the System it leaves behind and
\* its return value, or panics, leaving the System as it was at that point.
Returned(s, v) == [panic |-> FALSE, sys |-> s, val |-> v]
Panicked(s) == [panic |-> TRUE, sys |-> s, val |-> "none"]

\* Mutant: the counter is left as it was.
add_rsrc_stale_counter(s) ==
    IF s.num_rsrc + 1 > UsizeMax
    THEN Panicked(s)
    ELSE Returned([s EXCEPT !.reqs = [i \in 1 .. Len(s.reqs) |->
                                         Append(s.reqs[i], StoredDefault(s.kind))]],
                  s.num_rsrc)

\* Mutant: the index returned is the one after the new resource.
add_rsrc_returns_count(s) ==
    IF s.num_rsrc + 1 > UsizeMax
    THEN Panicked(s)
    ELSE Returned([s EXCEPT !.num_rsrc = s.num_rsrc + 1,
                            !.reqs = [i \in 1 .. Len(s.reqs) |->
                                         Append(s.reqs[i], StoredDefault(s.kind))]],
                  s.num_rsrc + 1)

add_rsrc(s) ==
    IF s.num_rsrc + 1 > UsizeMax
    THEN Panicked(s)
    ELSE Returned([s EXCEPT !.num_rsrc = s.num_rsrc + 1,
                            !.reqs = [i \in 1 .. Len(s.reqs) |->
                                         Append(s.reqs[i], StoredDefault(s.kind))]],
                  s.num_rsrc)

\* Mutant: the length is overwritten instead of maximised.
merge_overwrites_length(slot, req) ==
    Request(WrappingAdd(slot.num, req.num), req.length)

\* `slot.num += req.num; slot.length = slot.length.max(req.length)` once the
\* addition has not panicked.
merge(slot, req) ==
    Request(WrappingAdd(slot.num, req.num), Max(slot.length, req.length))

\* The three merges share their text up to the sub-request they touch.
Sub(slot, access) ==
    IF access = "read" THEN slot.read
    ELSE IF access = "write" THEN slot.write
    ELSE slot

WithSub(slot, access, v) ==
    IF access = "read" THEN [slot EXCEPT !.read = v]
    ELSE IF access = "write" THEN [slot EXCEPT !.write = v]
    ELSE v

\* Mutant: out-of-range indices are ignored instead of asserted.
add_ignores_bad_index(s, access, t, rsrc, req, checks) ==
    IF ~(t < Len(s.tasks)) \/ ~(rsrc < s.num_rsrc)
    THEN Returned(s, "unit")
    ELSE LET slot == At(At(s.reqs, t), rsrc) IN
         IF checks /\ WouldOverflow(Sub(slot, access).num, req.num)
         THEN Panicked(s)
         ELSE Returned([s EXCEPT !.reqs[t + 1][rsrc + 1] =
                                     WithSub(slot, access, merge(Sub(slot, access), req))],
                       "unit")

add(s, access, t, rsrc, req, checks) ==
    IF ~(t < Len(s.tasks)) \/ ~(rsrc < s.num_rsrc)
    THEN Panicked(s)
    ELSE LET slot == At(At(s.reqs, t), rsrc) IN
         IF checks /\ WouldOverflow(Sub(slot, access).num, req.num)
         THEN Panicked(s)
         ELSE Returned([s EXCEPT !.reqs[t + 1][rsrc + 1] =
                                     WithSub(slot, access, merge(Sub(slot, access), req))],
                       "unit")

add_req(s, t, rsrc, req, checks) == add(s, "mutex", t, rsrc, req, checks)
add_read(s, t, rsrc, req, checks) == add(s, "read", t, rsrc, req, checks)
add_write(s, t, rsrc, req, checks) == add(s, "write", t, rsrc, req, checks)

\* ------------------------------------------------------ System<Rw>::as_mutex
\* The two nested loops of as_mutex, slot k being task k \div num_rsrc and
\* resource k % num_rsrc: the read, then the write, of the slot are merged
\* into `o`; the first panicking add_req ends the call.
RECURSIVE as_mutex_loop(_, _, _, _)
as_mutex_loop(s, o, k, checks) ==
    IF k >= Len(s.reqs) * s.num_rsrc
    THEN Returned(s, o)
    ELSE LET t == k \div s.num_rsrc
             rsrc == k % s.num_rsrc
             pair == At(At(s.reqs, t), rsrc)
             r1 == add_req(o, t, rsrc, pair.read, checks)
             r2 == add_req(r1.sys, t, rsrc, pair.write, checks)
         IN  IF r1.panic \/ r2.panic
             THEN Panicked(s)
             ELSE as_mutex_loop(s, r2.sys, k + 1, checks)

RECURSIVE as_mutex_rsrcs(_, _)
as_mutex_rsrcs(o, n) ==
    IF n = 0 THEN o ELSE as_mutex_rsrcs(add_rsrc(o).sys, n - 1)

as_mutex(s, checks) ==
    as_mutex_loop(s, as_mutex_rsrcs(new("Mutex", s.tasks), s.num_rsrc), 0, checks)

\* ------------------------------------------------------- System::by_rsrc
\* Mutant: the entries are numbered from 1.
collect_by_rsrc_one_based(it, access) ==
    [i \in 1 .. Len(it) |-> TaskRequest(i, Sub(it[i], access))]

collect_by_rsrc(it, access) ==
    [i \in 1 .. Len(it) |-> TaskRequest(i - 1, Sub(it[i], access))]

transpose(K, it) ==
    IF K = "Rw"
    THEN RwPair(collect_by_rsrc(it, "read"), collect_by_rsrc(it, "write"))
    ELSE collect_by_rsrc(it, "mutex")

System_by_rsrc(s) ==
    [rsrc \in 1 .. s.num_rsrc |->
        transpose(s.kind, [i \in 1 .. Len(s.reqs) |-> s.reqs[i][rsrc]])]

\* ------------------------------------------------- RequestSet::sort_by_length
\* Mutant: the reversal of the length order is left out.
sort_by_length_ascending(list) ==
    { p \in { [i \in 1 .. Len(list) |-> list[q[i]]] : q \in Permutations(1 .. Len(list)) } :
        \A i \in 1 .. Len(p) - 1 : p[i].req.length <= p[i + 1].req.length }

\* Mutant: the key of the sort is the request count.
sort_by_length_by_num(list) ==
    { p \in { [i \in 1 .. Len(list) |-> list[q[i]]] : q \in Permutations(1 .. Len(list)) } :
        \A i \in 1 .. Len(p) - 1 : p[i].req.num >= p[i + 1].req.num }

\* sort_unstable_by on the reversed length order: the result is some
\* permutation of the slice in non-increasing length order; the order of
\* entries of equal length is unspecified.
sort_by_length(list) ==
    { p \in { [i \in 1 .. Len(list) |-> list[q[i]]] : q \in Permutations(1 .. Len(list)) } :
        \A i \in 1 .. Len(p) - 1 : p[i].req.length >= p[i + 1].req.length }

\* sort_by_length of one Usage<K>, and of the boxed slice of them.
sort_usage(K, u) ==
    IF K = "Rw"
    THEN { RwPair(r, w) : r \in sort_by_length(u.read), w \in sort_by_length(u.write) }
    ELSE sort_by_length(u)

RECURSIVE sort_all(_, _)
sort_all(K, us) ==
    IF us = << >> THEN { << >> }
    ELSE { Append(f, u) : f \in sort_all(K, SubSeq(us, 1, Len(us) - 1)),
                          u \in sort_usage(K, us[Len(us)]) }

\* ------------------------------------------------------------ Bound, Limits
Bound(count, length) == [length |-> length, count |-> count]

BoundDefault == Bound(0, 0)

BoundNew(length) == Bound(1, length)

BoundAdd(a, b) == Bound(a.count + b.count, a.length + b.length)

\* Mutant: the multiplication scales the count and leaves the length.
BoundMul_count_only(a, k) == Bound(a.count * k, a.length)

BoundMul(a, k) == Bound(a.count * k, a.length * k)

\* impl Mul<Bound> for usize
UsizeMulBound(k, a) == BoundMul(a, k)

\* derive(Ord): lexicographic in field order, length first.
BoundLe(a, b) == a.length < b.length \/ (a.length = b.length /\ a.count <= b.count)

BoundMax(a, b) == IF BoundLe(a, b) THEN b ELSE a

RECURSIVE BoundSum(_)
BoundSum(bs) ==
    IF bs = << >> THEN BoundDefault
    ELSE BoundAdd(BoundSum(SubSeq(bs, 1, Len(bs) - 1)), bs[Len(bs)])

Limits(total, per_task) == [total |-> total, per_task |-> per_task]

LimitsMul(l, k) == Limits(l.total * k, l.per_task * k)

ObliviousData(arrival, total) == [arrival |-> arrival, total |-> total]

ObliviousDataDefault == ObliviousData(BoundDefault, BoundDefault)

\* Mutant: the bound is stored as the arrival blocking too.
FromBound_sets_arrival(total) == ObliviousData(total, total)

FromBound(total) == ObliviousData(BoundDefault, total)

\* ------------------------------------------------- BoundBlocking::bound_blocking
\* Mutant: every competitor is taken per_task times, whatever remains.
RECURSIVE bound_blocking_loop_no_min(_, _, _, _, _)
bound_blocking_loop_no_min(list, i, t, limits, inter) ==
    IF i > Len(list) THEN inter
    ELSE IF list[i].task = t
    THEN bound_blocking_loop_no_min(list, i + 1, t, limits, inter)
    ELSE LET remaining == limits.total - inter.count IN
         IF remaining = 0 THEN inter
         ELSE LET num == limits.per_task IN
              bound_blocking_loop_no_min(list, i + 1, t, limits,
                  BoundAdd(inter, BoundMul(BoundNew(list[i].req.length), num)))

\* Mutant: a competitor is taken only when per_task whole requests remain.
RECURSIVE bound_blocking_loop_whole_only(_, _, _, _, _)
bound_blocking_loop_whole_only(list, i, t, limits, inter) ==
    IF i > Len(list) THEN inter
    ELSE IF list[i].task = t
    THEN bound_blocking_loop_whole_only(list, i + 1, t, limits, inter)
    ELSE LET remaining == limits.total - inter.count IN
         IF remaining = 0 THEN inter
         ELSE LET num == IF remaining >= limits.per_task THEN limits.per_task ELSE 0 IN
              bound_blocking_loop_whole_only(list, i + 1, t, limits,
                  BoundAdd(inter, BoundMul(BoundNew(list[i].req.length), num)))

\* Mutant: the loop ends at the entry of the task itself.
RECURSIVE bound_blocking_loop_stops_at_own(_, _, _, _, _)
bound_blocking_loop_stops_at_own(list, i, t, limits, inter) ==
    IF i > Len(list) THEN inter
    ELSE IF list[i].task = t
    THEN inter
    ELSE LET remaining == limits.total - inter.count IN
         IF remaining = 0 THEN inter
         ELSE LET num == Min(remaining, limits.per_task) IN
              bound_blocking_loop_stops_at_own(list, i + 1, t, limits,
                  BoundAdd(inter, BoundMul(BoundNew(list[i].req.length), num)))

RECURSIVE bound_blocking_loop(_, _, _, _, _)
bound_blocking_loop(list, i, t, limits, inter) ==
    IF i > Len(list) THEN inter
    ELSE IF list[i].task = t
    THEN bound_blocking_loop(list, i + 1, t, limits, inter)
    ELSE LET remaining == limits.total - inter.count IN
         IF remaining = 0 THEN inter
         ELSE LET num == Min(remaining, limits.per_task) IN
              bound_blocking_loop(list, i + 1, t, limits,
                  BoundAdd(inter, BoundMul(BoundNew(list[i].req.length), num)))

bound_blocking(list, t, limits) ==
    bound_blocking_loop(list, 1, t, limits, BoundDefault)

\* ----------------------------------------------------------------- analyzers
\* zip(sys.reqs_by(task), by_rsrc)
Zip(a, b) == [i \in 1 .. Min(Len(a), Len(b)) |-> <<a[i], b[i]>>]

FlexibleMulti == [struct |-> "FlexibleMulti", num_cpus |-> 0]

\* Mutant: the limits are not scaled by the number of requests.
FlexibleMulti_pass_unscaled(t, s, usage) ==
    FromBound(BoundSum(
        [i \in 1 .. Len(Zip(reqs_by(s, t), usage)) |->
            LET req == Zip(reqs_by(s, t), usage)[i][1]
                rset == Zip(reqs_by(s, t), usage)[i][2]
            IN  IF req.num = 0 THEN BoundDefault
                ELSE bound_blocking(rset, t, Limits(num_tasks(s) - 1, 1))]))

FlexibleMulti_pass(t, s, usage) ==
    FromBound(BoundSum(
        [i \in 1 .. Len(Zip(reqs_by(s, t), usage)) |->
            LET req == Zip(reqs_by(s, t), usage)[i][1]
                rset == Zip(reqs_by(s, t), usage)[i][2]
            IN  IF req.num = 0 THEN BoundDefault
                ELSE bound_blocking(rset, t,
                         LimitsMul(Limits(num_tasks(s) - 1, 1), req.num))]))

SingleClusterOm(num_cpus) == [struct |-> "SingleClusterOm", num_cpus |-> num_cpus]

\* Mutant: the limit counts all m CPUs.
RECURSIVE SingleClusterOm_pass_loop_all_cpus(_, _, _, _, _)
SingleClusterOm_pass_loop_all_cpus(self, t, z, i, o) ==
    IF i > Len(z) THEN o
    ELSE LET req == z[i][1]
             rset == z[i][2]
         IN  IF req.num = 0
             THEN SingleClusterOm_pass_loop_all_cpus(self, t, z, i + 1, o)
             ELSE LET limits == Limits(self.num_cpus, 1)
                      total == bound_blocking(rset, t, LimitsMul(limits, req.num))
                      arrival0 == IF req.num = 1 THEN total
                                  ELSE bound_blocking(rset, t, limits)
                      arrival == BoundAdd(arrival0, BoundNew(req.length))
                  IN  SingleClusterOm_pass_loop_all_cpus(self, t, z, i + 1,
                          ObliviousData(BoundMax(o.arrival, arrival),
                                        BoundAdd(o.total, total)))

RECURSIVE SingleClusterOm_pass_loop(_, _, _, _, _)
SingleClusterOm_pass_loop(self, t, z, i, o) ==
    IF i > Len(z) THEN o
    ELSE LET req == z[i][1]
             rset == z[i][2]
         IN  IF req.num = 0
             THEN SingleClusterOm_pass_loop(self, t, z, i + 1, o)
             ELSE LET limits == Limits(self.num_cpus - 1, 1)
                      total == bound_blocking(rset, t, LimitsMul(limits, req.num))
                      arrival0 == IF req.num = 1 THEN total
                                  ELSE bound_blocking(rset, t, limits)
                      arrival == BoundAdd(arrival0, BoundNew(req.length))
                  IN  SingleClusterOm_pass_loop(self, t, z, i + 1,
                          ObliviousData(BoundMax(o.arrival, arrival),
                                        BoundAdd(o.total, total)))

SingleClusterOm_pass(self, t, s, usage) ==
    SingleClusterOm_pass_loop(self, t, Zip(reqs_by(s, t), usage), 1, ObliviousDataDefault)

\* max() of an iterator of Bounds, unwrap_or_default() when it is empty.
RECURSIVE MaxOrDefault(_)
MaxOrDefault(bs) ==
    IF bs = << >> THEN BoundDefault
    ELSE IF Len(bs) = 1 THEN bs[1]
    ELSE BoundMax(MaxOrDefault(SubSeq(bs, 1, Len(bs) - 1)), bs[Len(bs)])

\* Mutant: only the tasks of strictly higher priority are kept.
RECURSIVE Donors_strict(_, _, _)
Donors_strict(s, t, i) ==
    IF i >= num_tasks(s) THEN << >>
    ELSE IF i # t /\ task(s, i).priority < task(s, t).priority
    THEN <<i>> \o Donors_strict(s, t, i + 1)
    ELSE Donors_strict(s, t, i + 1)

\* The tasks i kept by the filter of post, in index order.
RECURSIVE Donors(_, _, _)
Donors(s, t, i) ==
    IF i >= num_tasks(s) THEN << >>
    ELSE IF i # t /\ task(s, i).priority <= task(s, t).priority
    THEN <<i>> \o Donors(s, t, i + 1)
    ELSE Donors(s, t, i + 1)

\* Mutant: the donated term is added to the arrival blocking as well.
RECURSIVE SingleClusterOm_post_loop_moves_arrival(_, _, _)
SingleClusterOm_post_loop_moves_arrival(s, o, t) ==
    IF t >= num_tasks(s) THEN o
    ELSE LET ds == Donors(s, t, 0)
             term == MaxOrDefault([k \in 1 .. Len(ds) |-> At(o, ds[k]).arrival])
         IN  SingleClusterOm_post_loop_moves_arrival(s,
                 [o EXCEPT ![t + 1] = ObliviousData(BoundAdd(@.arrival, term),
                                                    BoundAdd(@.total, term))], t + 1)

\* The loop of post: task t reads out[i].arrival of the array as it is then.
RECURSIVE SingleClusterOm_post_loop(_, _, _)
SingleClusterOm_post_loop(s, o, t) ==
    IF t >= num_tasks(s) THEN o
    ELSE LET ds == Donors(s, t, 0)
             term == MaxOrDefault([k \in 1 .. Len(ds) |-> At(o, ds[k]).arrival])
         IN  SingleClusterOm_post_loop(s,
                 [o EXCEPT ![t + 1].total = BoundAdd(@, term)], t + 1)

SingleClusterOm_post(s, o) == SingleClusterOm_post_loop(s, o, 0)

\* CRW-OMLP post has the text of the C-OMLP one.
SingleClusterOm_rw_post(s, o) == SingleClusterOm_post_loop(s, o, 0)

OptimalFIFO(num_cpus) == [struct |-> "OptimalFIFO", num_cpus |-> num_cpus]

\* Mutant: every CPU, the own one included, holds a competitor.
OptimalFIFO_pass_all_cpus(self, t, s, usage) ==
    FromBound(BoundSum(
        [i \in 1 .. Len(Zip(reqs_by(s, t), usage)) |->
            LET req == Zip(reqs_by(s, t), usage)[i][1]
                rset == Zip(reqs_by(s, t), usage)[i][2]
            IN  IF req.num = 0 THEN BoundDefault
                ELSE bound_blocking(rset, t,
                         LimitsMul(Limits(self.num_cpus, 1), req.num))]))

OptimalFIFO_pass(self, t, s, usage) ==
    FromBound(BoundSum(
        [i \in 1 .. Len(Zip(reqs_by(s, t), usage)) |->
            LET req == Zip(reqs_by(s, t), usage)[i][1]
                rset == Zip(reqs_by(s, t), usage)[i][2]
            IN  IF req.num = 0 THEN BoundDefault
                ELSE bound_blocking(rset, t,
                         LimitsMul(Limits(self.num_cpus - 1, 1), req.num))]))

\* Mutant: with a full write queue only the first alternative is evaluated.
OptimalFIFO_rw_rsrc_first_case(self, t, pair, upair) ==
    LET read == pair.read
        write == pair.write
        reads == upair.read
        writes == upair.write
    IN  IF read.num = 0 /\ write.num = 0 THEN BoundDefault
        ELSE
        LET rbound == bound_blocking(reads, t, Limits(1, 1))
            rtotal ==
                IF read.num > 0
                THEN BoundAdd(bound_blocking(writes, t, Limits(write.num, write.num)),
                              IF rbound.length > 0
                              THEN BoundMul(Bound(rbound.count, rbound.length - 1), read.num)
                              ELSE BoundDefault)
                ELSE BoundDefault
            wsingle ==
                IF write.num > 0
                THEN LET case1lim == Limits(self.num_cpus - 1, 1)
                         case1 == bound_blocking(writes, t, case1lim)
                     IN  IF case1.count < case1lim.total \/ rbound.length = 0
                         THEN BoundAdd(case1, BoundMul(rbound, case1.count + 1))
                         ELSE BoundAdd(case1, BoundMul(rbound, self.num_cpus - 2))
                ELSE BoundDefault
        IN  BoundAdd(rtotal, BoundMul(wsingle, write.num))

\* Mutant: a reader is delayed by as many writes as it issues reads.
OptimalFIFO_rw_rsrc_read_limit(self, t, pair, upair) ==
    LET read == pair.read
        write == pair.write
        reads == upair.read
        writes == upair.write
    IN  IF read.num = 0 /\ write.num = 0 THEN BoundDefault
        ELSE
        LET rbound == bound_blocking(reads, t, Limits(1, 1))
            rtotal ==
                IF read.num > 0
                THEN BoundAdd(bound_blocking(writes, t, Limits(read.num, read.num)),
                              IF rbound.length > 0
                              THEN BoundMul(Bound(rbound.count, rbound.length - 1), read.num)
                              ELSE BoundDefault)
                ELSE BoundDefault
            wsingle ==
                IF write.num > 0
                THEN LET case1lim == Limits(self.num_cpus - 1, 1)
                         case1 == bound_blocking(writes, t, case1lim)
                     IN  IF case1.count < case1lim.total \/ rbound.length = 0
                         THEN BoundAdd(case1, BoundMul(rbound, case1.count + 1))
                         ELSE LET case2lim == Limits(self.num_cpus - 2, 1)
                                  case2 == bound_blocking(writes, t, case2lim)
                              IN  BoundMax(
                                    BoundAdd(case1, BoundMul(rbound, self.num_cpus - 2)),
                                    BoundAdd(case2, BoundMul(rbound, self.num_cpus - 1)))
                ELSE BoundDefault
        IN  BoundAdd(rtotal, BoundMul(wsingle, write.num))

\* One closure call of RW-OLP-F's pass, for one (RwPair, Usage<Rw>) of the zip.
OptimalFIFO_rw_rsrc(self, t, pair, upair) ==
    LET read == pair.read
        write == pair.write
        reads == upair.read
        writes == upair.write
    IN  IF read.num = 0 /\ write.num = 0 THEN BoundDefault
        ELSE
        LET rbound == bound_blocking(reads, t, Limits(1, 1))
            rtotal ==
                IF read.num > 0
                THEN BoundAdd(bound_blocking(writes, t, Limits(write.num, write.num)),
                              IF rbound.length > 0
                              THEN BoundMul(Bound(rbound.count, rbound.length - 1), read.num)
                              ELSE BoundDefault)
                ELSE BoundDefault
            wsingle ==
                IF write.num > 0
                THEN LET case1lim == Limits(self.num_cpus - 1, 1)
                         case1 == bound_blocking(writes, t, case1lim)
                     IN  IF case1.count < case1lim.total \/ rbound.length = 0
                         THEN BoundAdd(case1, BoundMul(rbound, case1.count + 1))
                         ELSE LET case2lim == Limits(self.num_cpus - 2, 1)
                                  case2 == bound_blocking(writes, t, case2lim)
                              IN  BoundMax(
                                    BoundAdd(case1, BoundMul(rbound, self.num_cpus - 2)),
                                    BoundAdd(case2, BoundMul(rbound, self.num_cpus - 1)))
                ELSE BoundDefault
        IN  BoundAdd(rtotal, BoundMul(wsingle, write.num))

OptimalFIFO_rw_pass(self, t, s, usage) ==
    IF self.num_cpus <= 1 THEN ObliviousDataDefault
    ELSE FromBound(BoundSum(
            [i \in 1 .. Len(Zip(reqs_by(s, t), usage)) |->
                OptimalFIFO_rw_rsrc(self, t, Zip(reqs_by(s, t), usage)[i][1],
                                             Zip(reqs_by(s, t), usage)[i][2])]))

GlobalOm(num_cpus) == [struct |-> "GlobalOm", num_cpus |-> num_cpus]

\* Mutant: the small-contention case ends at m requesters instead of m + 1.
GlobalOm_pass_early_switch(self, t, s, usage) ==
    FromBound(BoundSum(
        [i \in 1 .. Len(Zip(reqs_by(s, t), usage)) |->
            LET req == Zip(reqs_by(s, t), usage)[i][1]
                rset == Zip(reqs_by(s, t), usage)[i][2]
            IN  IF req.num = 0 THEN BoundDefault
                ELSE LET nreqs == Cardinality({ k \in 1 .. Len(rset) : rset[k].req.num > 0 })
                         limits == IF nreqs <= self.num_cpus
                                   THEN Limits(nreqs - 1, 1)
                                   ELSE Limits(2 * self.num_cpus - 1, 2)
                     IN  bound_blocking(rset, t, LimitsMul(limits, req.num))]))

GlobalOm_pass(self, t, s, usage) ==
    FromBound(BoundSum(
        [i \in 1 .. Len(Zip(reqs_by(s, t), usage)) |->
            LET req == Zip(reqs_by(s, t), usage)[i][1]
                rset == Zip(reqs_by(s, t), usage)[i][2]
            IN  IF req.num = 0 THEN BoundDefault
                ELSE LET nreqs == Cardinality({ k \in 1 .. Len(rset) : rset[k].req.num > 0 })
                         limits == IF nreqs <= self.num_cpus + 1
                                   THEN Limits(nreqs - 1, 1)
                                   ELSE Limits(2 * self.num_cpus - 1, 2)
                     IN  bound_blocking(rset, t, LimitsMul(limits, req.num))]))

\* Mutant: the writer limit counts all m CPUs for every write.
SingleClusterOm_rw_rsrc_all_cpus(self, t, pair, upair, o) ==
    LET read == pair.read
        write == pair.write
        reads == upair.read
        writes == upair.write
    IN  IF read.num = 0 /\ write.num = 0 THEN o
        ELSE
        LET wlimits == Limits(read.num + write.num * self.num_cpus,
                              read.num + write.num)
            wtotal == bound_blocking(writes, t, wlimits)
            rlimit == Min(wlimits.total, wtotal.count + write.num)
            rtotal == bound_blocking(reads, t, Limits(rlimit, rlimit))
            warrival0 ==
                IF write.num = 1 /\ read.num = 0 THEN BoundAdd(wtotal, rtotal)
                ELSE IF write.num > 0
                THEN LET warr == bound_blocking(writes, t, Limits(self.num_cpus - 1, 1))
                         rlimit2 == Min(self.num_cpus - 1, warr.count + 1)
                     IN  BoundAdd(warr, bound_blocking(reads, t, Limits(rlimit2, rlimit2)))
                ELSE BoundDefault
            rarrival0 ==
                IF read.num = 1 /\ write.num = 0 THEN BoundAdd(wtotal, rtotal)
                ELSE IF read.num > 0
                THEN LET warr == bound_blocking(writes, t, Limits(1, 1))
                         rlimit2 == Min(warr.count, 1)
                     IN  BoundAdd(warr, bound_blocking(reads, t, Limits(rlimit2, rlimit2)))
                ELSE BoundDefault
            warrival == BoundAdd(warrival0,
                                 IF write.num > 0 THEN BoundNew(write.length) ELSE BoundDefault)
            rarrival == BoundAdd(rarrival0,
                                 IF read.num > 0 THEN BoundNew(read.length) ELSE BoundDefault)
        IN  ObliviousData(BoundMax(o.arrival, BoundAdd(rarrival, warrival)),
                          BoundAdd(o.total, BoundAdd(rtotal, wtotal)))

\* One iteration of the loop of CRW-OMLP's pass, from `out` to the next `out`.
SingleClusterOm_rw_rsrc(self, t, pair, upair, o) ==
    LET read == pair.read
        write == pair.write
        reads == upair.read
        writes == upair.write
    IN  IF read.num = 0 /\ write.num = 0 THEN o
        ELSE
        LET wlimits == Limits(read.num + write.num * (self.num_cpus - 1),
                              read.num + write.num)
            wtotal == bound_blocking(writes, t, wlimits)
            rlimit == Min(wlimits.total, wtotal.count + write.num)
            rtotal == bound_blocking(reads, t, Limits(rlimit, rlimit))
            warrival0 ==
                IF write.num = 1 /\ read.num = 0 THEN BoundAdd(wtotal, rtotal)
                ELSE IF write.num > 0
                THEN LET warr == bound_blocking(writes, t, Limits(self.num_cpus - 1, 1))
                         rlimit2 == Min(self.num_cpus - 1, warr.count + 1)
                     IN  BoundAdd(warr, bound_blocking(reads, t, Limits(rlimit2, rlimit2)))
                ELSE BoundDefault
            rarrival0 ==
                IF read.num = 1 /\ write.num = 0 THEN BoundAdd(wtotal, rtotal)
                ELSE IF read.num > 0
                THEN LET warr == bound_blocking(writes, t, Limits(1, 1))
                         rlimit2 == Min(warr.count, 1)
                     IN  BoundAdd(warr, bound_blocking(reads, t, Limits(rlimit2, rlimit2)))
                ELSE BoundDefault
            warrival == BoundAdd(warrival0,
                                 IF write.num > 0 THEN BoundNew(write.length) ELSE BoundDefault)
            rarrival == BoundAdd(rarrival0,
                                 IF read.num > 0 THEN BoundNew(read.length) ELSE BoundDefault)
        IN  ObliviousData(BoundMax(o.arrival, BoundAdd(rarrival, warrival)),
                          BoundAdd(o.total, BoundAdd(rtotal, wtotal)))

RECURSIVE SingleClusterOm_rw_pass_loop(_, _, _, _, _)
SingleClusterOm_rw_pass_loop(self, t, z, i, o) ==
    IF i > Len(z) THEN o
    ELSE SingleClusterOm_rw_pass_loop(self, t, z, i + 1,
             SingleClusterOm_rw_rsrc(self, t, z[i][1], z[i][2], o))

\* Mutant: no early return on a single CPU.
SingleClusterOm_rw_pass_no_single_cpu(self, t, s, usage) ==
    SingleClusterOm_rw_pass_loop(self, t, Zip(reqs_by(s, t), usage), 1,
                                 ObliviousDataDefault)

SingleClusterOm_rw_pass(self, t, s, usage) ==
    IF self.num_cpus = 1 THEN ObliviousDataDefault
    ELSE SingleClusterOm_rw_pass_loop(self, t, Zip(reqs_by(s, t), usage), 1,
                                      ObliviousDataDefault)

\* Dynamic dispatch on the analyzer object and the kind K it is used for.
pass(self, t, s, usage) ==
    IF s.kind = "Mutex"
    THEN IF self.struct = "FlexibleMulti" THEN FlexibleMulti_pass(t, s, usage)
         ELSE IF self.struct = "OptimalFIFO" THEN OptimalFIFO_pass(self, t, s, usage)
         ELSE IF self.struct = "GlobalOm" THEN GlobalOm_pass(self, t, s, usage)
         ELSE SingleClusterOm_pass(self, t, s, usage)
    ELSE IF self.struct = "OptimalFIFO" THEN OptimalFIFO_rw_pass(self, t, s, usage)
         ELSE SingleClusterOm_rw_pass(self, t, s, usage)

name(self, K) ==
    IF self.struct = "FlexibleMulti" THEN "FMLP"
    ELSE IF self.struct = "GlobalOm" THEN "OMLP"
    ELSE IF self.struct = "OptimalFIFO" THEN (IF K = "Rw" THEN "RW-OLP-F" ELSE "OLP-F")
    ELSE (IF K = "Rw" THEN "CRW-OMLP" ELSE "C-OMLP")

post(self, s, o) ==
    IF self.struct = "SingleClusterOm"
    THEN IF s.kind = "Mutex" THEN SingleClusterOm_post(s, o)
         ELSE SingleClusterOm_rw_post(s, o)
    ELSE o

\* ------------------------------------------- the usize / u64 subtractions
\* One evaluation of `a - b` at a place of the source.
Subtraction(site, a, b) == [site |-> site, a |-> a, b |-> b]

\* The subtractions `limits.total - inter.count` one call of bound_blocking
\* evaluates, iteration by iteration.
RECURSIVE bound_blocking_subs_loop(_, _, _, _, _)
bound_blocking_subs_loop(list, i, t, limits, inter) ==
    IF i > Len(list) THEN {}
    ELSE IF list[i].task = t
    THEN bound_blocking_subs_loop(list, i + 1, t, limits, inter)
    ELSE LET remaining == limits.total - inter.count IN
         { Subtraction("sharing.rs:172", limits.total, inter.count) } \cup
         IF remaining = 0 THEN {}
         ELSE LET num == Min(remaining, limits.per_task) IN
              bound_blocking_subs_loop(list, i + 1, t, limits,
                  BoundAdd(inter, BoundMul(BoundNew(list[i].req.length), num)))

bound_blocking_subs(list, t, limits) ==
    bound_blocking_subs_loop(list, 1, t, limits, BoundDefault)

\* The subtractions one call of each pass evaluates, the ones inside its
\* calls of bound_blocking included.
FlexibleMulti_pass_subs(t, s, usage) ==
    UNION { LET req == Zip(reqs_by(s, t), usage)[i][1]
                rset == Zip(reqs_by(s, t), usage)[i][2]
            IN  IF req.num = 0 THEN {}
                ELSE { Subtraction("fmlp.rs:20", num_tasks(s), 1) } \cup
                     bound_blocking_subs(rset, t,
                         LimitsMul(Limits(num_tasks(s) - 1, 1), req.num)) :
            i \in 1 .. Len(Zip(reqs_by(s, t), usage)) }

OptimalFIFO_pass_subs(self, t, s, usage) ==
    UNION { LET req == Zip(reqs_by(s, t), usage)[i][1]
                rset == Zip(reqs_by(s, t), usage)[i][2]
            IN  IF req.num = 0 THEN {}
                ELSE { Subtraction("olpf.rs:28", self.num_cpus, 1) } \cup
                     bound_blocking_subs(rset, t,
                         LimitsMul(Limits(self.num_cpus - 1, 1), req.num)) :
            i \in 1 .. Len(Zip(reqs_by(s, t), usage)) }

GlobalOm_pass_subs(self, t, s, usage) ==
    UNION { LET req == Zip(reqs_by(s, t), usage)[i][1]
                rset == Zip(reqs_by(s, t), usage)[i][2]
            IN  IF req.num = 0 THEN {}
                ELSE LET nreqs == Cardinality({ k \in 1 .. Len(rset) : rset[k].req.num > 0 })
                         small == nreqs <= self.num_cpus + 1
                         limits == IF small
                                   THEN Limits(nreqs - 1, 1)
                                   ELSE Limits(2 * self.num_cpus - 1, 2)
                     IN  { IF small THEN Subtraction("omlp.rs:32", nreqs, 1)
                           ELSE Subtraction("omlp.rs:35", 2 * self.num_cpus, 1) } \cup
                         bound_blocking_subs(rset, t, LimitsMul(limits, req.num)) :
            i \in 1 .. Len(Zip(reqs_by(s, t), usage)) }

SingleClusterOm_pass_subs(self, t, s, usage) ==
    UNION { LET req == Zip(reqs_by(s, t), usage)[i][1]
                rset == Zip(reqs_by(s, t), usage)[i][2]
                limits == Limits(self.num_cpus - 1, 1)
            IN  IF req.num = 0 THEN {}
                ELSE { Subtraction("omlp.rs:69", self.num_cpus, 1) } \cup
                     bound_blocking_subs(rset, t, LimitsMul(limits, req.num)) \cup
                     (IF req.num = 1 THEN {} ELSE bound_blocking_subs(rset, t, limits)) :
            i \in 1 .. Len(Zip(reqs_by(s, t), usage)) }

\* Mutant: the single-CPU return of RW-OLP-F is taken for zero CPUs only.
OptimalFIFO_rw_pass_subs_zero_guard(self, t, s, usage) ==
    IF self.num_cpus <= 0 THEN {}
    ELSE
    UNION { LET read == Zip(reqs_by(s, t), usage)[i][1].read
                write == Zip(reqs_by(s, t), usage)[i][1].write
                reads == Zip(reqs_by(s, t), usage)[i][2].read
                writes == Zip(reqs_by(s, t), usage)[i][2].write
                rbound == bound_blocking(reads, t, Limits(1, 1))
                case1lim == Limits(self.num_cpus - 1, 1)
                case1 == bound_blocking(writes, t, case1lim)
            IN  IF read.num = 0 /\ write.num = 0 THEN {}
                ELSE bound_blocking_subs(reads, t, Limits(1, 1)) \cup
                     (IF read.num > 0
                      THEN bound_blocking_subs(writes, t, Limits(write.num, write.num)) \cup
                           (IF rbound.length > 0
                            THEN { Subtraction("olpf.rs:57", rbound.length, 1) }
                            ELSE {})
                      ELSE {}) \cup
                     (IF write.num > 0
                      THEN { Subtraction("olpf.rs:67", self.num_cpus, 1) } \cup
                           bound_blocking_subs(writes, t, case1lim) \cup
                           (IF case1.count < case1lim.total \/ rbound.length = 0
                            THEN {}
                            ELSE { Subtraction("olpf.rs:75", self.num_cpus, 2),
                                   Subtraction("olpf.rs:78", self.num_cpus, 2),
                                   Subtraction("olpf.rs:79", self.num_cpus, 1) } \cup
                                 bound_blocking_subs(writes, t,
                                     Limits(self.num_cpus - 2, 1)))
                      ELSE {}) :
            i \in 1 .. Len(Zip(reqs_by(s, t), usage)) }

OptimalFIFO_rw_pass_subs(self, t, s, usage) ==
    IF self.num_cpus <= 1 THEN {}
    ELSE
    UNION { LET read == Zip(reqs_by(s, t), usage)[i][1].read
                write == Zip(reqs_by(s, t), usage)[i][1].write
                reads == Zip(reqs_by(s, t), usage)[i][2].read
                writes == Zip(reqs_by(s, t), usage)[i][2].write
                rbound == bound_blocking(reads, t, Limits(1, 1))
                case1lim == Limits(self.num_cpus - 1, 1)
                case1 == bound_blocking(writes, t, case1lim)
            IN  IF read.num = 0 /\ write.num = 0 THEN {}
                ELSE bound_blocking_subs(reads, t, Limits(1, 1)) \cup
                     (IF read.num > 0
                      THEN bound_blocking_subs(writes, t, Limits(write.num, write.num)) \cup
                           (IF rbound.length > 0
                            THEN { Subtraction("olpf.rs:57", rbound.length, 1) }
                            ELSE {})
                      ELSE {}) \cup
                     (IF write.num > 0
                      THEN { Subtraction("olpf.rs:67", self.num_cpus, 1) } \cup
                           bound_blocking_subs(writes, t, case1lim) \cup
                           (IF case1.count < case1lim.total \/ rbound.length = 0
                            THEN {}
                            ELSE { Subtraction("olpf.rs:75", self.num_cpus, 2),
                                   Subtraction("olpf.rs:78", self.num_cpus, 2),
                                   Subtraction("olpf.rs:79", self.num_cpus, 1) } \cup
                                 bound_blocking_subs(writes, t,
                                     Limits(self.num_cpus - 2, 1)))
                      ELSE {}) :
            i \in 1 .. Len(Zip(reqs_by(s, t), usage)) }

SingleClusterOm_rw_pass_subs(self, t, s, usage) ==
    IF self.num_cpus = 1 THEN {}
    ELSE
    UNION { LET read == Zip(reqs_by(s, t), usage)[i][1].read
                write == Zip(reqs_by(s, t), usage)[i][1].write
                reads == Zip(reqs_by(s, t), usage)[i][2].read
                writes == Zip(reqs_by(s, t), usage)[i][2].write
                wlimits == Limits(read.num + write.num * (self.num_cpus - 1),
                                  read.num + write.num)
                wtotal == bound_blocking(writes, t, wlimits)
                rlimit == Min(wlimits.total, wtotal.count + write.num)
                warr == bound_blocking(writes, t, Limits(self.num_cpus - 1, 1))
                wrlimit == Min(self.num_cpus - 1, warr.count + 1)
                rarr == bound_blocking(writes, t, Limits(1, 1))
                rrlimit == Min(rarr.count, 1)
            IN  IF read.num = 0 /\ write.num = 0 THEN {}
                ELSE { Subtraction("omlp.rs:122", self.num_cpus, 1) } \cup
                     bound_blocking_subs(writes, t, wlimits) \cup
                     bound_blocking_subs(reads, t, Limits(rlimit, rlimit)) \cup
                     (IF write.num = 1 /\ read.num = 0 THEN {}
                      ELSE IF write.num > 0
                      THEN { Subtraction("omlp.rs:137", self.num_cpus, 1),
                             Subtraction("omlp.rs:139", self.num_cpus, 1) } \cup
                           bound_blocking_subs(writes, t, Limits(self.num_cpus - 1, 1)) \cup
                           bound_blocking_subs(reads, t, Limits(wrlimit, wrlimit))
                      ELSE {}) \cup
                     (IF read.num = 1 /\ write.num = 0 THEN {}
                      ELSE IF read.num > 0
                      THEN bound_blocking_subs(writes, t, Limits(1, 1)) \cup
                           bound_blocking_subs(reads, t, Limits(rrlimit, rrlimit))
                      ELSE {}) :
            i \in 1 .. Len(Zip(reqs_by(s, t), usage)) }

pass_subs(self, t, s, usage) ==
    IF s.kind = "Mutex"
    THEN IF self.struct = "FlexibleMulti" THEN FlexibleMulti_pass_subs(t, s, usage)
         ELSE IF self.struct = "OptimalFIFO" THEN OptimalFIFO_pass_subs(self, t, s, usage)
         ELSE IF self.struct = "GlobalOm" THEN GlobalOm_pass_subs(self, t, s, usage)
         ELSE SingleClusterOm_pass_subs(self, t, s, usage)
    ELSE IF self.struct = "OptimalFIFO" THEN OptimalFIFO_rw_pass_subs(self, t, s, usage)
         ELSE SingleClusterOm_rw_pass_subs(self, t, s, usage)

\* ------------------------------------------------------------- System::new
NoAnalyzer == [struct |-> "none", num_cpus |-> 0]

Init ==
    /\ \E K \in {"Mutex", "Rw"}, ts \in TaskSlices : sys = new(K, ts)
    /\ overflow_checks \in BOOLEAN
    /\ pc = "idle"
    /\ ret = [op |-> "new", panic |-> FALSE]
    /\ nops = 0
    /\ an = NoAnalyzer
    /\ by_rsrc = << >>
    /\ out = << >>
    /\ calls = << >>

\* A call made on the idle System: it drops what the previous run left.
Call(op, args, res) ==
    /\ pc = "idle"
    /\ sys' = res.sys
    /\ pc' = IF res.panic THEN "panicked" ELSE "idle"
    /\ ret' = [op |-> op, panic |-> res.panic, val |-> res.val] @@ args
    /\ an' = NoAnalyzer
    /\ by_rsrc' = << >>
    /\ out' = << >>
    /\ calls' = << >>
    /\ UNCHANGED overflow_checks

Mutation(op, args, res) ==
    /\ nops < MaxOps
    /\ nops' = nops + 1
    /\ Call(op, args, res)

AddRsrc ==
    /\ sys.num_rsrc < MaxRsrc
    /\ Mutation("add_rsrc", << >>, add_rsrc(sys))

AddReq ==
    /\ sys.kind = "Mutex"
    /\ \E t \in 0 .. NumTasks, rsrc \in 0 .. sys.num_rsrc, req \in RequestInputs :
          Mutation("add_req", [task |-> t, rsrc |-> rsrc, req |-> req],
                   add_req(sys, t, rsrc, req, overflow_checks))

AddRead ==
    /\ sys.kind = "Rw"
    /\ \E t \in 0 .. NumTasks, rsrc \in 0 .. sys.num_rsrc, req \in RequestInputs :
          Mutation("add_read", [task |-> t, rsrc |-> rsrc, req |-> req],
                   add_read(sys, t, rsrc, req, overflow_checks))

AddWrite ==
    /\ sys.kind = "Rw"
    /\ \E t \in 0 .. NumTasks, rsrc \in 0 .. sys.num_rsrc, req \in RequestInputs :
          Mutation("add_write", [task |-> t, rsrc |-> rsrc, req |-> req],
                   add_write(sys, t, rsrc, req, overflow_checks))

ByRsrc ==
    /\ Call("by_rsrc", << >>, Returned(sys, System_by_rsrc(sys)))
    /\ UNCHANGED nops

AsMutex ==
    /\ sys.kind = "Rw"
    /\ Call("as_mutex", << >>, as_mutex(sys, overflow_checks))
    /\ UNCHANGED nops

\* ------------------------------------------------------------- System::run
\* The analyzers run may be handed, by the kind of the System.
Analyzers(K) ==
    IF K = "Mutex"
    THEN {FlexibleMulti}
         \cup { OptimalFIFO(m) : m \in 1 .. MaxCpus }
         \cup { GlobalOm(m) : m \in 1 .. MaxCpus }
         \cup { SingleClusterOm(m) : m \in 1 .. MaxCpus }
    ELSE { OptimalFIFO(m) : m \in 1 .. MaxCpus }
         \cup { SingleClusterOm(m) : m \in 1 .. MaxCpus }

\* `let mut by_rsrc = self.by_rsrc(); by_rsrc.sort_by_length();`
RunBegin ==
    /\ pc = "idle"
    /\ \E a \in Analyzers(sys.kind), sorted \in sort_all(sys.kind, System_by_rsrc(sys)) :
          /\ an' = a
          /\ by_rsrc' = sorted
    /\ out' = << >>
    /\ calls' = << >>
    /\ pc' = IF num_tasks(sys) = 0 THEN "post" ELSE "pass"
    /\ ret' = [op |-> "run", panic |-> FALSE, val |-> "pending"]
    /\ UNCHANGED <<sys, overflow_checks, nops>>

\* Mutant: the range of tasks starts at 1.
RunPass_from_one ==
    /\ pc = "pass"
    /\ LET t == Len(out) + 1 IN
          /\ out' = Append(out, pass(an, t, sys, by_rsrc))
          /\ calls' = Append(calls, [method |-> "pass", task |-> t])
          /\ pc' = IF t + 1 < num_tasks(sys) THEN "pass" ELSE "post"
    /\ UNCHANGED <<sys, overflow_checks, nops, ret, an, by_rsrc>>

\* One element of `(0 .. self.tasks.len()).map(|task| an.pass(task, self, &by_rsrc))`.
RunPass ==
    /\ pc = "pass"
    /\ LET t == Len(out) IN
          /\ out' = Append(out, pass(an, t, sys, by_rsrc))
          /\ calls' = Append(calls, [method |-> "pass", task |-> t])
          /\ pc' = IF t + 1 < num_tasks(sys) THEN "pass" ELSE "post"
    /\ UNCHANGED <<sys, overflow_checks, nops, ret, an, by_rsrc>>

\* `an.post(self, &mut out); out`: the local by_rsrc is dropped on return.
RunPost ==
    /\ pc = "post"
    /\ out' = post(an, sys, out)
    /\ calls' = Append(calls, [method |-> "post"])
    /\ by_rsrc' = << >>
    /\ pc' = "idle"
    /\ ret' = [op |-> "run", panic |-> FALSE, val |-> out']
    /\ UNCHANGED <<sys, overflow_checks, nops, an>>

Next ==
    \/ AddRsrc
    \/ AddReq
    \/ AddRead
    \/ AddWrite
    \/ ByRsrc
    \/ AsMutex
    \/ RunBegin
    \/ RunPass
    \/ RunPost

Spec == Init /\ [][Next]_vars

\* ------------------------------------------- bound_blocking as a pure function
\* The lists handed to bound_blocking: at most one entry per task, in any
\* order.  Only the length of an entry is read.
RECURSIVE EntryLists(_)
EntryLists(ts) ==
    { << >> } \cup
    UNION { { <<TaskRequest(t, Request(1, l))>> \o rest :
                l \in 0 .. MaxLength, rest \in EntryLists(ts \ {t}) } : t \in ts }

InitBB ==
    /\ sys = new("Mutex", << >>)
    /\ overflow_checks = FALSE
    /\ pc = "call"
    /\ \E list \in EntryLists(0 .. MaxEntries - 1), t \in 0 .. MaxEntries - 1,
          total \in 0 .. MaxLimit, per_task \in 0 .. MaxLimit :
          ret = [op |-> "bound_blocking", panic |-> FALSE, val |-> BoundDefault,
                 list |-> list, task |-> t, limits |-> Limits(total, per_task)]
    /\ nops = 0
    /\ an = NoAnalyzer
    /\ by_rsrc = << >>
    /\ out = << >>
    /\ calls = << >>

BoundBlocking ==
    /\ pc = "call"
    /\ ret.op = "bound_blocking"
    /\ ret' = [ret EXCEPT !.val = bound_blocking(ret.list, ret.task, ret.limits)]
    /\ pc' = "idle"
    /\ UNCHANGED <<sys, overflow_checks, nops, an, by_rsrc, out, calls>>

NextBB == BoundBlocking

SpecBB == InitBB /\ [][NextBB]_vars

\* ------------------------------------------------- run on a populated System
\* The cells that add_req / add_read / add_write calls leave in a System.
RunSlots(K) ==
    IF K = "Rw"
    THEN { RwPair(RequestDefault, RequestDefault),
           RwPair(Request(1, 5), RequestDefault),
           RwPair(RequestDefault, Request(1, 10)),
           RwPair(Request(2, 10), Request(2, 5)) }
    ELSE { RequestDefault, Request(1, 5), Request(1, 10), Request(2, 5) }

\* Task slices of n tasks: all of one priority, or priorities 0, 1, 1, 2, ...
RunTaskSlices(n) ==
    { [i \in 1 .. n |-> Task(10, 3, 10, 0)],
      [i \in 1 .. n |-> Task(10, 3, 10, i \div 2)] }

\* (tasks, resources) of the analysed Systems: at most MaxSlots cells.
RunShapes ==
    { sh \in (2 .. MaxSlots) \X (1 .. MaxSlots) : sh[1] * sh[2] <= MaxSlots }

\* The Systems left by new, sh[2] calls of add_rsrc and any calls of add_*.
RunSystems(K) ==
    UNION { { System(K, ts, sh[2], rs) :
                ts \in RunTaskSlices(sh[1]),
                rs \in [1 .. sh[1] -> [1 .. sh[2] -> RunSlots(K)]] } :
            sh \in RunShapes }

InitRun ==
    /\ \E K \in {"Mutex", "Rw"} : sys \in RunSystems(K)
    /\ overflow_checks = TRUE
    /\ pc = "idle"
    /\ ret = [op |-> "built", panic |-> FALSE]
    /\ nops = 0
    /\ an = NoAnalyzer
    /\ by_rsrc = << >>
    /\ out = << >>
    /\ calls = << >>

NextRun ==
    \/ RunBegin
    \/ RunPass
    \/ RunPost

SpecRun == InitRun /\ [][NextRun]_vars

\* ------------------------------------------------ the Bound operators alone
Bounds == { Bound(count, length) : count \in 0 .. MaxBound, length \in 0 .. MaxBound }

InitBound ==
    /\ sys = new("Mutex", << >>)
    /\ overflow_checks = FALSE
    /\ pc = "call"
    /\ \E a \in Bounds, b \in Bounds, c \in Bounds, k \in 0 .. MaxBound, l \in 0 .. MaxBound :
          ret = [op |-> "bound", panic |-> FALSE, val |-> "none",
                 a |-> a, b |-> b, c |-> c, k |-> k, l |-> l]
    /\ nops = 0
    /\ an = NoAnalyzer
    /\ by_rsrc = << >>
    /\ out = << >>
    /\ calls = << >>

\* The expressions `a + b`, `a * k`, `k * a`, `Bound::new(l)` and `.sum()`.
BoundOps ==
    /\ pc = "call"
    /\ ret.op = "bound"
    /\ ret' = [ret EXCEPT !.val =
          [a_plus_b |-> BoundAdd(ret.a, ret.b),
           b_plus_a |-> BoundAdd(ret.b, ret.a),
           ab_plus_c |-> BoundAdd(BoundAdd(ret.a, ret.b), ret.c),
           a_plus_bc |-> BoundAdd(ret.a, BoundAdd(ret.b, ret.c)),
           a_plus_default |-> BoundAdd(ret.a, BoundDefault),
           default_plus_a |-> BoundAdd(BoundDefault, ret.a),
           a_times_k |-> BoundMul(ret.a, ret.k),
           k_times_a |-> UsizeMulBound(ret.k, ret.a),
           k_times_sum |-> UsizeMulBound(ret.k, BoundAdd(ret.a, ret.b)),
           ka_plus_kb |-> BoundAdd(UsizeMulBound(ret.k, ret.a),
                                   UsizeMulBound(ret.k, ret.b)),
           new |-> BoundNew(ret.l),
           sum |-> BoundSum(<<ret.a, ret.b, ret.c>>)]]
    /\ pc' = "idle"
    /\ UNCHANGED <<sys, overflow_checks, nops, an, by_rsrc, out, calls>>

NextBound == BoundOps

SpecBound == InitBound /\ [][NextBound]_vars

\* ------------------------------------------------------------- bound::soft
\* dashu's Relaxed: an exact fraction that is not kept in lowest terms.
Relaxed(numerator, denominator) == [numerator |-> numerator, denominator |-> denominator]

RelaxedDefault == Relaxed(0, 1)

RelaxedAdd(x, y) ==
    Relaxed(x.numerator * y.denominator + y.numerator * x.denominator,
            x.denominator * y.denominator)

\* NumOrd::num_le of a fraction of positive denominator and a usize.
num_le(x, n) == x.numerator <= n * x.denominator

ObliviousTask(t, data) == [task |-> t, data |-> data]

ObliviousTask_utilization(self) ==
    Relaxed(self.task.cost + self.data.total.length, self.task.period)

ObliviousTask_implicit(self) == self.task.period = self.task.deadline

\* Mutant: the blocking length is left out of the cost.
ObliviousTask_feasible_cost_only(self) == self.task.cost <= self.task.period

ObliviousTask_feasible(self) ==
    self.task.cost + self.data.total.length <= self.task.period

\* impl Set for any collection of Sets, here of ObliviousTasks.
RECURSIVE Set_utilization(_)
Set_utilization(ts) ==
    IF ts = << >> THEN RelaxedDefault
    ELSE RelaxedAdd(Set_utilization(SubSeq(ts, 1, Len(ts) - 1)),
                    ObliviousTask_utilization(ts[Len(ts)]))

Set_implicit(ts) == \A i \in 1 .. Len(ts) : ObliviousTask_implicit(ts[i])

Set_feasible(ts) == \A i \in 1 .. Len(ts) : ObliviousTask_feasible(ts[i])

None == [some |-> FALSE]

Some(v) == [some |-> TRUE, val |-> v]

soft(ts, num_cpus) ==
    IF Set_implicit(ts)
    THEN Some(num_le(Set_utilization(ts), num_cpus) /\ Set_feasible(ts))
    ELSE None

\* The tasks paired with analyzer results that soft is handed.
SoftTasks ==
    { ObliviousTask(Task(period, cost, deadline, 0),
                    ObliviousData(BoundDefault, Bound(count, length))) :
        period \in {5, 10}, cost \in {3, 6}, deadline \in {5, 8, 10},
        count \in {1}, length \in {0, 2, 5} }

RECURSIVE SoftSets(_)
SoftSets(n) ==
    IF n = 0 THEN { << >> }
    ELSE SoftSets(n - 1) \cup
         { Append(ts, t) : ts \in { x \in SoftSets(n - 1) : Len(x) = n - 1 }, t \in SoftTasks }

InitSoft ==
    /\ sys = new("Mutex", << >>)
    /\ overflow_checks = FALSE
    /\ pc = "call"
    /\ \E ts \in SoftSets(MaxSoftTasks), m \in 1 .. MaxCpus :
          ret = [op |-> "soft", panic |-> FALSE, val |-> "none",
                 ts |-> ts, num_cpus |-> m]
    /\ nops = 0
    /\ an = NoAnalyzer
    /\ by_rsrc = << >>
    /\ out = << >>
    /\ calls = << >>

Soft ==
    /\ pc = "call"
    /\ ret.op = "soft"
    /\ ret' = [ret EXCEPT !.val = soft(ret.ts, ret.num_cpus)]
    /\ pc' = "idle"
    /\ UNCHANGED <<sys, overflow_checks, nops, an, by_rsrc, out, calls>>

NextSoft == Soft

SpecSoft == InitSoft /\ [][NextSoft]_vars

\* ========================================================================
\* Claims
\* ========================================================================
Merges == {"add_req", "add_read", "add_write"}

AccessOf(op) ==
    IF op = "add_read" THEN "read" ELSE IF op = "add_write" THEN "write" ELSE "mutex"

RECURSIVE SumTo(_, _)
SumTo(f, n) == IF n = 0 THEN 0 ELSE f[n] + SumTo(f, n - 1)

\* The greedy reference: the j-th entry of another task is taken
\* min(total - count so far, per_task) times, the count so far being
\* min(total, (j - 1) * per_task).
Others(list, t) == SelectSeq(list, LAMBDA e : e.task # t)

Copies(limits, j) ==
    Min(limits.total - Min(limits.total, (j - 1) * limits.per_task), limits.per_task)

GreedyReference(list, t, limits) ==
    LET os == Others(list, t) IN
    Bound(SumTo([j \in 1 .. Len(os) |-> Copies(limits, j)], Len(os)),
          SumTo([j \in 1 .. Len(os) |-> Copies(limits, j) * os[j].req.length], Len(os)))

\* C1: bound_blocking(list, task, limits) equals the greedy reference, so its
\* count is min(limits.total, limits.per_task * number of entries of other
\* tasks) and never exceeds limits.total.
C1_BoundBlockingGreedy ==
    (pc = "idle" /\ ret.op = "bound_blocking") =>
        /\ ret.val = GreedyReference(ret.list, ret.task, ret.limits)
        /\ ret.val.count = Min(ret.limits.total,
                               ret.limits.per_task * Len(Others(ret.list, ret.task)))
        /\ ret.val.count <= ret.limits.total

\* The total cap cuts the last competitor short and the own entry is skipped.
C1_Witness ==
    /\ pc = "idle"
    /\ ret.op = "bound_blocking"
    /\ Len(ret.list) = 3
    /\ ret.list[2].task = ret.task
    /\ ret.limits = Limits(3, 2)
    /\ ret.val.count = 3
    /\ ret.list[1].req.length = 1
    /\ ret.list[3].req.length = 2
    /\ ret.val.length = 4

AsMutexReturned == pc = "idle" /\ ret.op = "as_mutex" /\ ~ret.panic

SlotsOf(s) == { <<t, r>> : t \in 0 .. Len(s.tasks) - 1, r \in 0 .. s.num_rsrc - 1 }

SlotAt(s, tr) == At(At(s.reqs, tr[1]), tr[2])

\* C2: the System returned by as_mutex has the same tasks and resource
\* count, and its slot (t, r) has num = read.num + write.num of the original.
C2_AsMutexPreservesCount ==
    AsMutexReturned =>
        /\ ret.val.tasks = sys.tasks
        /\ ret.val.num_rsrc = sys.num_rsrc
        /\ \A tr \in SlotsOf(sys) :
              SlotAt(ret.val, tr).num = SlotAt(sys, tr).read.num + SlotAt(sys, tr).write.num

\* C3 as stated: every read and every write sub-request that was made keeps
\* its own length in the mutex System.
C3_AsMutexKeepsEachLength ==
    AsMutexReturned =>
        \A tr \in SlotsOf(sys) :
            /\ SlotAt(sys, tr).read.num > 0 =>
                  SlotAt(ret.val, tr).length = SlotAt(sys, tr).read.length
            /\ SlotAt(sys, tr).write.num > 0 =>
                  SlotAt(ret.val, tr).length = SlotAt(sys, tr).write.length

\* C3 amended: the read and the write of a slot are merged into one mutex
\* entry whose length is the larger of the two lengths.
C3_AsMutexMaxLength ==
    AsMutexReturned =>
        \A tr \in SlotsOf(sys) :
            SlotAt(ret.val, tr).length =
                Max(SlotAt(sys, tr).read.length, SlotAt(sys, tr).write.length)

C3_Witness ==
    /\ AsMutexReturned
    /\ \E tr \in SlotsOf(sys) :
          /\ SlotAt(sys, tr).read.num > 0
          /\ SlotAt(sys, tr).write.num > 0
          /\ SlotAt(sys, tr).read.length > SlotAt(sys, tr).write.length
          /\ SlotAt(ret.val, tr).length = SlotAt(sys, tr).read.length

WellShaped(s) ==
    /\ Len(s.reqs) = Len(s.tasks)
    /\ \A i \in 1 .. Len(s.reqs) : Len(s.reqs[i]) = s.num_rsrc

\* C4: every task's request vector has length num_rsrc (also in the System
\* as_mutex returns), num_rsrc never decreases and the task slice is unchanged.
C4_ShapeAndGrowth ==
    /\ [](WellShaped(sys) /\ (AsMutexReturned => WellShaped(ret.val)))
    /\ [][sys'.num_rsrc >= sys.num_rsrc /\ sys'.tasks = sys.tasks]_vars

C4_Witness ==
    /\ pc = "idle"
    /\ ret.op = "run"
    /\ sys.num_rsrc = 2
    /\ \E tr \in SlotsOf(sys) : Sub(SlotAt(sys, tr), IF sys.kind = "Rw" THEN "write" ELSE "mutex").num > 0

MergeReturned == ret'.op \in Merges /\ ~ret'.panic

MergedSlot == <<ret'.task, ret'.rsrc>>

\* C5: a merge with valid indices leaves in the slot the old num plus
\* req.num and the larger of the old length and req.length.
C5_MergeSumsAndMaxes ==
    [][MergeReturned =>
          Sub(SlotAt(sys', MergedSlot), AccessOf(ret'.op)) =
              Request(Sub(SlotAt(sys, MergedSlot), AccessOf(ret'.op)).num + ret'.req.num,
                      Max(Sub(SlotAt(sys, MergedSlot), AccessOf(ret'.op)).length,
                          ret'.req.length))]_vars

SubRequests(s) ==
    { <<tr, a>> : tr \in SlotsOf(s),
                  a \in IF s.kind = "Rw" THEN {"read", "write"} ELSE {"mutex"} }

\* C6: a merge changes only the sub-request it is made on and not the
\* resource count, and no mutation stores a smaller num or length in an
\* existing slot.
C6_MergeFrameAndGrowth ==
    [][/\ MergeReturned =>
             /\ sys'.num_rsrc = sys.num_rsrc
             /\ \A x \in SubRequests(sys) :
                   x # <<MergedSlot, AccessOf(ret'.op)>> =>
                       Sub(SlotAt(sys', x[1]), x[2]) = Sub(SlotAt(sys, x[1]), x[2])
       /\ \A x \in SubRequests(sys) :
             /\ Sub(SlotAt(sys', x[1]), x[2]).num >= Sub(SlotAt(sys, x[1]), x[2]).num
             /\ Sub(SlotAt(sys', x[1]), x[2]).length >= Sub(SlotAt(sys, x[1]), x[2]).length]_vars

\* C7: add_rsrc returns the resource count held before the call (0 on a new
\* System, so successive calls return 0, 1, 2, ...), appends one default slot
\* to every task's vector and leaves the existing slots alone.
C7_AddRsrc ==
    /\ [](ret.op = "new" => (sys.num_rsrc = 0 /\ \A i \in 1 .. Len(sys.reqs) : sys.reqs[i] = << >>))
    /\ [][(ret'.op = "add_rsrc" /\ ~ret'.panic) =>
          /\ ret'.val = sys.num_rsrc
          /\ sys'.num_rsrc = sys.num_rsrc + 1
          /\ Len(sys'.reqs) = Len(sys.reqs)
          /\ \A i \in 1 .. Len(sys.reqs) :
                /\ Len(sys'.reqs[i]) = Len(sys.reqs[i]) + 1
                /\ SubSeq(sys'.reqs[i], 1, Len(sys.reqs[i])) = sys.reqs[i]
                /\ sys'.reqs[i][Len(sys.reqs[i]) + 1] =
                      IF sys.kind = "Rw"
                      THEN [read |-> [num |-> 0, length |-> 0],
                            write |-> [num |-> 0, length |-> 0]]
                      ELSE [num |-> 0, length |-> 0]]_vars

C7_Witness ==
    /\ ret.op = "add_rsrc"
    /\ ~ret.panic
    /\ ret.val = 1
    /\ sys.num_rsrc = 2
    /\ \E i \in 1 .. Len(sys.reqs) : sys.reqs[i][1] # StoredDefault(sys.kind)

\* C8: a merge with task >= number of tasks or rsrc >= resource count panics
\* and modifies no slot.
C8_InvalidIndexPanics ==
    [][(ret'.op \in Merges /\ pc = "idle"
            /\ (ret'.task >= Len(sys.tasks) \/ ret'.rsrc >= sys.num_rsrc)) =>
          /\ ret'.panic
          /\ pc' = "panicked"
          /\ sys' = sys]_vars

C8_Witness ==
    /\ pc = "panicked"
    /\ ret.op \in Merges
    /\ ret.task < Len(sys.tasks)
    /\ ret.rsrc >= sys.num_rsrc
    /\ \E x \in SubRequests(sys) : Sub(SlotAt(sys, x[1]), x[2]).num > 0

\* C9: a merge whose total old num + req.num does not fit a usize panics
\* instead of storing a wrapped-around count.
C9_OverflowPanics ==
    [][(ret'.op \in Merges /\ pc = "idle"
            /\ ret'.task < Len(sys.tasks) /\ ret'.rsrc < sys.num_rsrc
            /\ Sub(SlotAt(sys, MergedSlot), AccessOf(ret'.op)).num + ret'.req.num > UsizeMax) =>
          ret'.panic]_vars

ExpectedCalls(n) ==
    [i \in 1 .. n + 1 |->
        IF i <= n THEN [method |-> "pass", task |-> i - 1] ELSE [method |-> "post"]]

IsPrefix(a, b) == Len(a) <= Len(b) /\ a = SubSeq(b, 1, Len(a))

\* C10: run invokes pass once per task index, in index order and on the same
\* sorted usage, then post exactly once, and returns n results, entry t being
\* the result for task t.
C10_RunCallOrder ==
    /\ [](/\ pc \in {"pass", "post"} =>
                /\ IsPrefix(calls, ExpectedCalls(num_tasks(sys)))
                /\ Len(calls) = Len(out)
                /\ Len(out) <= num_tasks(sys)
                /\ pc = "post" => Len(out) = num_tasks(sys)
                /\ \A t \in 0 .. Len(out) - 1 : At(out, t) = pass(an, t, sys, by_rsrc)
          /\ (pc = "idle" /\ ret.op = "run") =>
                /\ calls = ExpectedCalls(num_tasks(sys))
                /\ Len(ret.val) = num_tasks(sys)
                /\ ret.val = out)
    /\ [][/\ pc = "pass" => by_rsrc' = by_rsrc
          /\ (pc = "post" /\ pc' = "idle") => ret'.val = post(an, sys, out)]_vars

C10_Witness ==
    /\ pc = "idle"
    /\ ret.op = "run"
    /\ an.struct = "SingleClusterOm"
    /\ Len(ret.val) = NumTasks
    /\ \A t \in 0 .. NumTasks - 1 : At(ret.val, t).total.length > 0

\* ------------------------------------------------------------------- C11
\* The request lists of the usage handed to pass: one for Mutex, the read and
\* the write list for Rw.
UsageLists(K, u) == IF K = "Rw" THEN {u.read, u.write} ELSE {u}

PassLists == UNION { UsageLists(sys.kind, by_rsrc[r]) : r \in 1 .. Len(by_rsrc) }

StrictlyDecreasing(list) ==
    \A i \in 1 .. Len(list) - 1 : list[i].req.length > list[i + 1].req.length

NonIncreasing(list) ==
    \A i \in 1 .. Len(list) - 1 : list[i].req.length >= list[i + 1].req.length

\* C11 as stated: whenever run invokes pass, every usage list (for Rw the read
\* list and the write list) is in strictly decreasing order of length.
C11_SortedStrictly ==
    pc = "pass" => \A l \in PassLists : StrictlyDecreasing(l)

\* C11, amended: whenever run invokes pass, every usage list is in
\* non-increasing order of length (entries of equal length in any order), and
\* it still holds exactly one entry per task, the one by_rsrc() gives it.
C11_SortedNonIncreasing ==
    pc = "pass" =>
        /\ Len(by_rsrc) = sys.num_rsrc
        /\ \A l \in PassLists : NonIncreasing(l)
        /\ \A r \in 1 .. Len(by_rsrc) :
              LET u == System_by_rsrc(sys)[r] IN
              IF sys.kind = "Rw"
              THEN /\ { by_rsrc[r].read[i] : i \in 1 .. Len(by_rsrc[r].read) }
                        = { u.read[i] : i \in 1 .. num_tasks(sys) }
                   /\ { by_rsrc[r].write[i] : i \in 1 .. Len(by_rsrc[r].write) }
                        = { u.write[i] : i \in 1 .. num_tasks(sys) }
                   /\ Len(by_rsrc[r].read) = num_tasks(sys)
                   /\ Len(by_rsrc[r].write) = num_tasks(sys)
              ELSE /\ { by_rsrc[r][i] : i \in 1 .. Len(by_rsrc[r]) }
                        = { u[i] : i \in 1 .. num_tasks(sys) }
                   /\ Len(by_rsrc[r]) = num_tasks(sys)

\* pass is invoked on a list that the sort had to reorder: the later task
\* holds the longer request.
C11_Witness ==
    /\ pc = "pass"
    /\ \E l \in PassLists :
          /\ Len(l) = 2
          /\ l[1].task = 1
          /\ l[1].req.length > l[2].req.length
          /\ l[2].req.length > 0

\* ------------------------------------------------------------ C12 .. C14
\* The cell of task t (0-based) for resource r (1-based) of the System.
Cell(t, r) == sys.reqs[t + 1][r]

\* The tasks whose pass has returned in the run under way.
Passed == 0 .. Len(out) - 1

InPasses(K, struct) ==
    /\ pc \in {"pass", "post"}
    /\ sys.kind = K
    /\ an.struct = struct

\* The sum, over the resources task t requests, of the greedy bound under the
\* limits lim(r), taken on the usage handed to pass.
RECURSIVE SumOverRsrc(_, _, _)
SumOverRsrc(t, lim, r) ==
    IF r = 0 THEN BoundDefault
    ELSE BoundAdd(SumOverRsrc(t, lim, r - 1),
                  IF Cell(t, r).num = 0 THEN BoundDefault
                  ELSE GreedyReference(by_rsrc[r], t, lim[r]))

\* Scenarios A, B, C: one resource, three tasks, one request of length 10 each.
ThreeTasksOneRequest ==
    /\ sys.kind = "Mutex"
    /\ sys.num_rsrc = 1
    /\ num_tasks(sys) = 3
    /\ \A t \in 0 .. 2 : Cell(t, 1) = Request(1, 10)

\* C12: the FMLP pass total of task t is the sum, over the resources r with
\* k_r > 0 requests of t, of the greedy bound with total = (n - 1) * k_r and
\* per_task = k_r; in Scenario A it is count 2, length 20.
C12_FmlpTotal ==
    InPasses("Mutex", "FlexibleMulti") =>
        \A t \in Passed :
            /\ At(out, t).total =
                   SumOverRsrc(t, [r \in 1 .. sys.num_rsrc |->
                                      Limits((num_tasks(sys) - 1) * Cell(t, r).num,
                                             Cell(t, r).num)], sys.num_rsrc)
            /\ ThreeTasksOneRequest => At(out, t).total = Bound(2, 20)

\* Scenario A has been analysed by FMLP.
C12_Witness ==
    /\ InPasses("Mutex", "FlexibleMulti")
    /\ pc = "post"
    /\ ThreeTasksOneRequest
    /\ At(out, 0).total = Bound(2, 20)

\* C13: the OLP-F pass total of task t is the same sum with total =
\* (m - 1) * k_r and per_task = k_r, so its count is at most (m - 1) times the
\* requests of t whatever the number of tasks; in Scenario B with m = 2 it is
\* count 1, length 10.
C13_OlpfTotal ==
    InPasses("Mutex", "OptimalFIFO") =>
        \A t \in Passed :
            /\ At(out, t).total =
                   SumOverRsrc(t, [r \in 1 .. sys.num_rsrc |->
                                      Limits((an.num_cpus - 1) * Cell(t, r).num,
                                             Cell(t, r).num)], sys.num_rsrc)
            /\ At(out, t).total.count <=
                   (an.num_cpus - 1)
                       * SumTo([r \in 1 .. sys.num_rsrc |-> Cell(t, r).num], sys.num_rsrc)
            /\ (ThreeTasksOneRequest /\ an.num_cpus = 2)
                   => At(out, t).total = Bound(1, 10)

\* Scenario B has been analysed by OLP-F on two CPUs.
C13_Witness ==
    /\ InPasses("Mutex", "OptimalFIFO")
    /\ pc = "post"
    /\ an.num_cpus = 2
    /\ ThreeTasksOneRequest
    /\ At(out, 0).total = Bound(1, 10)

\* The number of tasks, t included, with a nonzero request count on resource r.
Requesters(r) == Cardinality({ i \in 0 .. num_tasks(sys) - 1 : Cell(i, r).num > 0 })

\* C14: the global OMLP pass total of task t is the same sum with, for c the
\* number of requesters of the resource, total = (c - 1) * k_r and per_task =
\* k_r when c <= m + 1, and total = (2m - 1) * k_r and per_task = 2 * k_r
\* otherwise; in Scenario C with m = 2 it is count 2, length 20.
C14_OmlpTotal ==
    InPasses("Mutex", "GlobalOm") =>
        \A t \in Passed :
            /\ At(out, t).total =
                   SumOverRsrc(t, [r \in 1 .. sys.num_rsrc |->
                       IF Requesters(r) <= an.num_cpus + 1
                       THEN Limits((Requesters(r) - 1) * Cell(t, r).num, Cell(t, r).num)
                       ELSE Limits((2 * an.num_cpus - 1) * Cell(t, r).num,
                                   2 * Cell(t, r).num)], sys.num_rsrc)
            /\ (ThreeTasksOneRequest /\ an.num_cpus = 2)
                   => At(out, t).total = Bound(2, 20)

\* Scenario C has been analysed by the global OMLP on two CPUs.
C14_Witness ==
    /\ InPasses("Mutex", "GlobalOm")
    /\ pc = "post"
    /\ an.num_cpus = 2
    /\ ThreeTasksOneRequest
    /\ At(out, 0).total = Bound(2, 20)

\* The large-contention case of the global OMLP: three requesters, one CPU.
C14_WitnessLarge ==
    /\ InPasses("Mutex", "GlobalOm")
    /\ pc = "post"
    /\ an.num_cpus = 1
    /\ sys.num_rsrc = 1
    /\ Requesters(1) = 3
    /\ At(out, 0).total.count > 0

\* ------------------------------------------------------------ C15 .. C17
AllTasks == 0 .. num_tasks(sys) - 1

\* The tasks other than t whose priority value is at most that of t.
DonorSet(t) ==
    { i \in AllTasks : i # t /\ task(sys, i).priority <= task(sys, t).priority }

\* The largest Bound of a set in the order of Bound, (0, 0) for the empty set.
LargestBound(bs) ==
    IF bs = {} THEN BoundDefault
    ELSE CHOOSE b \in bs : \A c \in bs : BoundLe(c, b)

\* The term post adds to the total of t, read from the array o.
DonationTerm(t, o) == LargestBound({ At(o, i).arrival : i \in DonorSet(t) })

PostStep(struct) ==
    /\ pc = "post"
    /\ pc' = "idle"
    /\ an.struct = struct

\* Scenario D: two tasks of equal priority, each requesting one resource of
\* its own with length 5.
TwoTasksTwoResources ==
    /\ sys.kind = "Mutex"
    /\ num_tasks(sys) = 2
    /\ sys.num_rsrc = 2
    /\ task(sys, 0).priority = task(sys, 1).priority
    /\ Cell(0, 1).num > 0 /\ Cell(0, 1).length = 5 /\ Cell(0, 2) = RequestDefault
    /\ Cell(1, 2).num > 0 /\ Cell(1, 2).length = 5 /\ Cell(1, 1) = RequestDefault

\* C15: the post of C-OMLP and CRW-OMLP leaves every task t with its pass
\* total plus the largest arrival bound among the tasks i # t with
\* priority[i] <= priority[t], or plus (0, 0) when there is none; the own
\* arrival is not a candidate.  In Scenario D each total gains the arrival
\* bound of the other task, of length 5.
C15_PriorityDonation ==
    [][ PostStep("SingleClusterOm") =>
          /\ Len(out') = num_tasks(sys)
          /\ \A t \in AllTasks :
                /\ At(out', t).total = BoundAdd(At(out, t).total, DonationTerm(t, out))
                /\ DonorSet(t) = {} => At(out', t).total = At(out, t).total
          /\ TwoTasksTwoResources =>
                \A t \in {0, 1} :
                    /\ At(out, 1 - t).arrival.length = 5
                    /\ At(out', t).total =
                           BoundAdd(At(out, t).total, At(out, 1 - t).arrival) ]_vars

\* Scenario D has been analysed by C-OMLP: the pass totals have length 0, the
\* final ones the length 5 of the other task's arrival bound.
C15_Witness ==
    /\ pc = "idle"
    /\ ret.op = "run"
    /\ an.struct = "SingleClusterOm"
    /\ an.num_cpus = 2
    /\ TwoTasksTwoResources
    /\ \A t \in {0, 1} : At(ret.val, t).total.length = 5

\* post visiting the tasks in the order given, each step reading the array as
\* the steps before it left it.
RECURSIVE PostInOrder(_, _, _)
PostInOrder(order, o, k) ==
    IF k > Len(order) THEN o
    ELSE PostInOrder(order,
             [o EXCEPT ![order[k]].total = BoundAdd(@, DonationTerm(order[k] - 1, o))],
             k + 1)

\* C16: post changes no arrival bound, whatever the analyzer; the term donated
\* to a task is read from the arrival bounds the passes left, so that visiting
\* the tasks in any order gives the totals run returns.
C16_PostKeepsArrivals ==
    [][ (pc = "post" /\ pc' = "idle") =>
          /\ \A t \in AllTasks : At(out', t).arrival = At(out, t).arrival
          /\ an.struct = "SingleClusterOm" =>
                \A order \in Permutations(1 .. num_tasks(sys)) :
                    PostInOrder(order, out, 1) = out' ]_vars

\* A run with donation returned where every task of three received a nonzero
\* term and holds a nonzero arrival bound of its own.
C16_Witness ==
    /\ pc = "idle"
    /\ ret.op = "run"
    /\ an.struct = "SingleClusterOm"
    /\ num_tasks(sys) = 3
    /\ \A t \in AllTasks :
          /\ At(ret.val, t).arrival.length > 0
          /\ DonationTerm(t, ret.val).length > 0
    /\ At(ret.val, 0).arrival # At(ret.val, 1).arrival

\* The task has no request to any resource.
NoRequest(t) ==
    \A r \in 1 .. sys.num_rsrc :
        IF sys.kind = "Rw"
        THEN Cell(t, r).read.num = 0 /\ Cell(t, r).write.num = 0
        ELSE Cell(t, r).num = 0

NoDonation == an.struct \in {"FlexibleMulti", "OptimalFIFO", "GlobalOm"}

\* C17: for FMLP, OLP-F, RW-OLP-F and the global OMLP, run returns an arrival
\* bound of (0, 0) for every task and the totals the passes computed, post
\* changing nothing; a task without requests gets the total (0, 0).
C17_NoDonation ==
    /\ []((pc = "idle" /\ ret.op = "run" /\ NoDonation) =>
            /\ Len(ret.val) = num_tasks(sys)
            /\ \A t \in AllTasks :
                  /\ At(ret.val, t).arrival = BoundDefault
                  /\ NoRequest(t) => At(ret.val, t).total = BoundDefault)
    /\ [][ (pc = "post" /\ pc' = "idle" /\ NoDonation) =>
             /\ out' = out
             /\ ret'.val = out ]_vars

\* A run without donation returned a nonzero total for one task and (0, 0) for
\* a task that requests nothing.
C17_Witness ==
    /\ pc = "idle"
    /\ ret.op = "run"
    /\ NoDonation
    /\ NoRequest(1)
    /\ At(ret.val, 0).total.length > 0
    /\ At(ret.val, 1) = ObliviousDataDefault

\* ------------------------------------------------------------ C18 .. C20
RECURSIVE SumBounds(_, _)
SumBounds(f, n) == IF n = 0 THEN BoundDefault ELSE BoundAdd(SumBounds(f, n - 1), f[n])

\* The larger of two Bounds: the longer one, the higher count on equal length.
Larger(a, b) ==
    IF a.length > b.length \/ (a.length = b.length /\ a.count >= b.count) THEN a ELSE b

\* The longest read of another task on resource r, as a Bound of count 1
\* (count 0 when t is the only task).
RBound(t, r) == GreedyReference(by_rsrc[r].read, t, Limits(1, 1))

\* RW-OLP-F, reader side of task t on resource r.
RwOlpfReader(t, r) ==
    LET read == Cell(t, r).read
        write == Cell(t, r).write
    IN  IF read.num = 0 THEN BoundDefault
        ELSE BoundAdd(GreedyReference(by_rsrc[r].write, t, Limits(write.num, write.num)),
                      IF RBound(t, r).length > 0
                      THEN BoundMul(Bound(RBound(t, r).count, RBound(t, r).length - 1),
                                    read.num)
                      ELSE BoundDefault)

\* RW-OLP-F, bound of one write of task t on resource r, on m CPUs.
RwOlpfPerWrite(t, r, m) ==
    LET case1 == GreedyReference(by_rsrc[r].write, t, Limits(m - 1, 1))
        case2 == GreedyReference(by_rsrc[r].write, t, Limits(m - 2, 1))
        rbound == RBound(t, r)
    IN  IF case1.count < m - 1 \/ rbound.length = 0
        THEN BoundAdd(case1, BoundMul(rbound, case1.count + 1))
        ELSE Larger(BoundAdd(case1, BoundMul(rbound, m - 2)),
                    BoundAdd(case2, BoundMul(rbound, m - 1)))

RwOlpfWriter(t, r, m) ==
    IF Cell(t, r).write.num = 0 THEN BoundDefault
    ELSE BoundMul(RwOlpfPerWrite(t, r, m), Cell(t, r).write.num)

OnlyWrites(t) == \A r \in 1 .. sys.num_rsrc : Cell(t, r).read.num = 0

\* C18: on m >= 2 CPUs the RW-OLP-F pass total of task t is the sum over the
\* resources of its reader contribution and its writer contribution; the
\* writer contribution is the write count times the per-write bound, which is
\* case1 + (case1.count + 1) * rbound when case1.count < m - 1 or no other
\* task reads, and otherwise the larger of case1 + (m - 2) * rbound and
\* case2 + (m - 1) * rbound, case1 and case2 being the greedy bounds on the
\* writes with per_task = 1 and total = m - 1 and m - 2.
C18_RwOlpfWriter ==
    (InPasses("Rw", "OptimalFIFO") /\ an.num_cpus >= 2) =>
        \A t \in Passed :
            /\ At(out, t).total =
                   SumBounds([r \in 1 .. sys.num_rsrc |->
                                 BoundAdd(RwOlpfReader(t, r),
                                          RwOlpfWriter(t, r, an.num_cpus))], sys.num_rsrc)
            /\ OnlyWrites(t) =>
                   At(out, t).total =
                       SumBounds([r \in 1 .. sys.num_rsrc |->
                                     RwOlpfWriter(t, r, an.num_cpus)], sys.num_rsrc)

\* Three CPUs, the write queue full and the second alternative the larger one:
\* task 0 writes once, task 1 writes length 10, task 2 reads length 5, so that
\* 10 + 2 * 5 exceeds 10 + 1 * 5.
C18_Witness ==
    /\ InPasses("Rw", "OptimalFIFO")
    /\ pc = "post"
    /\ an.num_cpus = 3
    /\ sys.num_rsrc = 1
    /\ num_tasks(sys) = 3
    /\ Cell(0, 1) = RwPair(RequestDefault, Request(1, 10))
    /\ Cell(1, 1) = RwPair(RequestDefault, Request(1, 10))
    /\ Cell(2, 1) = RwPair(Request(1, 5), RequestDefault)
    /\ At(out, 0).total = Bound(3, 20)

\* The other tasks that issue write requests to resource r.
OtherWriters(t, r) == { i \in AllTasks : i # t /\ Cell(i, r).write.num > 0 }

RECURSIVE SumOfSet(_, _)
SumOfSet(f, S) ==
    IF S = {} THEN 0
    ELSE LET x == CHOOSE x \in S : TRUE IN f[x] + SumOfSet(f, S \ {x})

\* C19: whenever fewer than m - 1 other tasks issue writes to the resource,
\* RW-OLP-F uses the not-full-queue accounting with those tasks as the only
\* waiting writers: a task that only writes, to the only resource, is charged
\* per write the lengths of the waiting writers plus (their number + 1) times
\* the longest competing read.
C19_OnlyWritersWait ==
    (InPasses("Rw", "OptimalFIFO") /\ an.num_cpus >= 2 /\ sys.num_rsrc = 1) =>
        \A t \in Passed :
            (/\ OnlyWrites(t)
             /\ Cell(t, 1).write.num > 0
             /\ Cardinality(OtherWriters(t, 1)) < an.num_cpus - 1)
            => At(out, t).total.length =
                   Cell(t, 1).write.num *
                       ( SumOfSet([i \in AllTasks |-> Cell(i, 1).write.length],
                                  OtherWriters(t, 1))
                         + (Cardinality(OtherWriters(t, 1)) + 1) * RBound(t, 1).length )

\* CRW-OMLP, writer and reader bound of task t on resource r, on m CPUs.
CrwOmlpWriter(t, r, m) ==
    LET read == Cell(t, r).read
        write == Cell(t, r).write
    IN  GreedyReference(by_rsrc[r].write, t,
            Limits(read.num + write.num * (m - 1), read.num + write.num))

CrwOmlpReader(t, r, m) ==
    LET read == Cell(t, r).read
        write == Cell(t, r).write
        limit == Min(read.num + write.num * (m - 1),
                     CrwOmlpWriter(t, r, m).count + write.num)
    IN  GreedyReference(by_rsrc[r].read, t, Limits(limit, limit))

\* C20: on m >= 2 CPUs the CRW-OMLP pass total of task t is the sum, over the
\* resources it reads r or writes w times, of the writer bound (greedy on the
\* writes, total = r + w * (m - 1), per_task = r + w) and the reader bound
\* (greedy on the reads, total = per_task = the smaller of r + w * (m - 1)
\* and the count of the writer bound + w).
C20_CrwOmlpTotal ==
    (InPasses("Rw", "SingleClusterOm") /\ an.num_cpus >= 2) =>
        \A t \in Passed :
            At(out, t).total =
                SumBounds([r \in 1 .. sys.num_rsrc |->
                              IF Cell(t, r).read.num = 0 /\ Cell(t, r).write.num = 0
                              THEN BoundDefault
                              ELSE BoundAdd(CrwOmlpReader(t, r, an.num_cpus),
                                            CrwOmlpWriter(t, r, an.num_cpus))],
                          sys.num_rsrc)

\* Two CPUs; task 0 reads twice and writes twice, task 1 writes length 10,
\* task 2 reads length 5: four writes of 10 and four reads of 5 are charged.
C20_Witness ==
    /\ InPasses("Rw", "SingleClusterOm")
    /\ pc = "post"
    /\ an.num_cpus = 2
    /\ sys.num_rsrc = 1
    /\ num_tasks(sys) = 3
    /\ Cell(0, 1) = RwPair(Request(2, 10), Request(2, 5))
    /\ Cell(1, 1) = RwPair(RequestDefault, Request(1, 10))
    /\ Cell(2, 1) = RwPair(Request(1, 5), RequestDefault)
    /\ At(out, 0).total = Bound(8, 60)

\* ------------------------------------------------------------ C21, C22
BoundBlockingReturned == pc = "idle" /\ ret.op = "bound_blocking"

\* a is at most b in count and in length.
BoundBelow(a, b) == a.count <= b.count /\ a.length <= b.length

\* C21: on a list in non-increasing length order, bound_blocking does not
\* decrease, in count or in length, when limits.total is raised with per_task
\* fixed, nor when limits.per_task is raised with total fixed.
C21_BoundBlockingMonotone ==
    (BoundBlockingReturned /\ NonIncreasing(ret.list)) =>
        /\ BoundBelow(ret.val,
                      bound_blocking(ret.list, ret.task,
                                     Limits(ret.limits.total + 1, ret.limits.per_task)))
        /\ BoundBelow(ret.val,
                      bound_blocking(ret.list, ret.task,
                                     Limits(ret.limits.total, ret.limits.per_task + 1)))
        /\ \A total \in ret.limits.total .. MaxLimit + 1,
              per_task \in ret.limits.per_task .. MaxLimit + 1 :
              BoundBelow(ret.val,
                         bound_blocking(ret.list, ret.task, Limits(total, per_task)))

\* The total is exhausted and a higher per_task moves requests from the
\* shorter competitor to the longer one: same count, more length.
C21_Witness ==
    /\ BoundBlockingReturned
    /\ NonIncreasing(ret.list)
    /\ Len(Others(ret.list, ret.task)) = 2
    /\ ret.val.count = ret.limits.total
    /\ ret.limits.per_task < ret.limits.total
    /\ bound_blocking(ret.list, ret.task,
                      Limits(ret.limits.total, ret.limits.per_task + 1)).length
           > ret.val.length

\* C22: all orders of the list that are non-increasing in length give the
\* same Bound, wherever the entry of the task itself stands among its ties.
C22_BoundBlockingTieOrder ==
    BoundBlockingReturned =>
        /\ \A p \in sort_by_length(ret.list), q \in sort_by_length(ret.list) :
              bound_blocking(p, ret.task, ret.limits)
                  = bound_blocking(q, ret.task, ret.limits)
        /\ NonIncreasing(ret.list) =>
              \A p \in sort_by_length(ret.list) :
                  bound_blocking(p, ret.task, ret.limits) = ret.val

\* The entry of the task itself comes first and ties with a competitor, so
\* that another sorted order has the competitor first.
C22_Witness ==
    /\ BoundBlockingReturned
    /\ NonIncreasing(ret.list)
    /\ Len(ret.list) = 3
    /\ ret.list[1].task = ret.task
    /\ ret.list[1].req.length = ret.list[2].req.length
    /\ ret.list[2].req.length > ret.list[3].req.length
    /\ ret.val.length > 0

\* ------------------------------------------------------------------- C23
BoundOpsReturned == pc = "idle" /\ ret.op = "bound"

\* C23: Bound addition is commutative and associative with identity (0, 0);
\* multiplication by an integer k >= 0, on either side, multiplies count and
\* length by k and distributes over addition; Bound::new(l) is (count 1,
\* length l).
C23_BoundAlgebra ==
    BoundOpsReturned =>
        /\ ret.val.a_plus_b = ret.val.b_plus_a
        /\ ret.val.a_plus_b = [length |-> ret.a.length + ret.b.length,
                               count |-> ret.a.count + ret.b.count]
        /\ ret.val.ab_plus_c = ret.val.a_plus_bc
        /\ ret.val.sum = ret.val.ab_plus_c
        /\ ret.val.a_plus_default = ret.a
        /\ ret.val.default_plus_a = ret.a
        /\ BoundDefault = [length |-> 0, count |-> 0]
        /\ ret.val.a_times_k = [length |-> ret.a.length * ret.k,
                                count |-> ret.a.count * ret.k]
        /\ ret.val.k_times_a = ret.val.a_times_k
        /\ ret.val.k_times_sum = ret.val.ka_plus_kb
        /\ ret.val.new = [length |-> ret.l, count |-> 1]

\* Twice the sum of two different Bounds with different counts and lengths.
C23_Witness ==
    /\ BoundOpsReturned
    /\ ret.k = 2
    /\ ret.a = Bound(1, 2)
    /\ ret.b = Bound(2, 1)
    /\ ret.val.k_times_sum = Bound(6, 6)
    /\ ret.val.a_times_k = Bound(2, 4)

\* ------------------------------------------------------------------- C24
SoftReturned == pc = "idle" /\ ret.op = "soft"

RECURSIVE ProductTo(_, _)
ProductTo(f, n) == IF n = 0 THEN 1 ELSE f[n] * ProductTo(f, n - 1)

\* The cost of task i with its total blocking length, and its period.
Inflated(i) == ret.ts[i].task.cost + ret.ts[i].data.total.length

Period(i) == ret.ts[i].task.period

AllPeriods == ProductTo([i \in 1 .. Len(ret.ts) |-> Period(i)], Len(ret.ts))

\* The sum of Inflated(i) / Period(i) is at most m: both sides multiplied by
\* the product of the periods.
UtilizationWithin(m) ==
    SumTo([i \in 1 .. Len(ret.ts) |-> Inflated(i) * (AllPeriods \div Period(i))],
          Len(ret.ts)) <= m * AllPeriods

\* C24: soft returns None exactly when some task has deadline # period,
\* whatever the blocking bounds; otherwise it returns Some(v), v being true
\* iff the sum of (cost + total blocking length) / period is at most num_cpus
\* and every task has cost + total blocking length <= period.  Cost 3, period
\* = deadline = 10, blocking 2 is accepted; with deadline 8 the result is None.
C24_Soft ==
    SoftReturned =>
        /\ ret.val = None <=>
               \E i \in 1 .. Len(ret.ts) :
                   ret.ts[i].task.deadline # ret.ts[i].task.period
        /\ ret.val # None =>
               /\ ret.val.some
               /\ ret.val.val <=>
                      /\ UtilizationWithin(ret.num_cpus)
                      /\ \A i \in 1 .. Len(ret.ts) : Inflated(i) <= Period(i)
        /\ (/\ Len(ret.ts) = 1
            /\ ret.ts[1].task = Task(10, 3, 10, 0)
            /\ ret.ts[1].data.total.length = 2) => ret.val = Some(TRUE)
        /\ (/\ Len(ret.ts) = 1
            /\ ret.ts[1].task = Task(10, 3, 8, 0)) => ret.val = None

\* Scenario E: cost 3, period 10, implicit deadline, blocking 2, one CPU.
C24_Witness ==
    /\ SoftReturned
    /\ Len(ret.ts) = 1
    /\ ret.num_cpus = 1
    /\ ret.ts[1].task = Task(10, 3, 10, 0)
    /\ ret.ts[1].data.total.length = 2
    /\ ret.val = Some(TRUE)

\* Two tasks that are feasible one by one are rejected on one CPU for their
\* utilization, 8/10 + 3/5.
C24_WitnessUtilization ==
    /\ SoftReturned
    /\ Len(ret.ts) = 2
    /\ ret.num_cpus = 1
    /\ \A i \in 1 .. 2 : Inflated(i) <= Period(i)
    /\ ret.val = Some(FALSE)

\* ------------------------------------------------------------------- C25
RunReturned == pc = "idle" /\ ret.op = "run"

\* What run returns when the sort leaves the usage in the order `usage`.
RunResult(a, s, usage) ==
    post(a, s, [i \in 1 .. num_tasks(s) |-> pass(a, i - 1, s, usage)])

\* C25: whatever order the sort gives to entries of equal length, run returns
\* the same arrival and total bounds for every task, so that two runs of an
\* analyzer on a System agree; and no step of run changes the System.
C25_Deterministic ==
    /\ [](RunReturned =>
            \A usage \in sort_all(sys.kind, System_by_rsrc(sys)) :
                RunResult(an, sys, usage) = ret.val)
    /\ [][sys' = sys]_vars

\* A run returned on a System where two competitors tie in length but not in
\* count, so that the sort has several outcomes.
C25_Witness ==
    /\ RunReturned
    /\ sys.kind = "Mutex"
    /\ sys.num_rsrc = 1
    /\ num_tasks(sys) = 3
    /\ Cell(0, 1) = Request(1, 10)
    /\ Cell(1, 1) = Request(1, 5)
    /\ Cell(2, 1) = Request(2, 5)
    /\ Cardinality(sort_all(sys.kind, System_by_rsrc(sys))) = 2
    /\ At(ret.val, 1).total.length > 0

\* ------------------------------------------------------------------- C26
ByRsrcReturned == pc = "idle" /\ ret.op = "by_rsrc"

\* The request lists of a usage with the access they hold.
AccessLists(K, u) ==
    IF K = "Rw" THEN { <<"read", u.read>>, <<"write", u.write>> }
    ELSE { <<"mutex", u>> }

\* The stored (sub-)request of task t for resource r under an access.
StoredRequest(t, r, access) ==
    IF access = "read" THEN Cell(t, r).read
    ELSE IF access = "write" THEN Cell(t, r).write
    ELSE Cell(t, r)

\* Every list of the usages us holds one entry per task, with the stored
\* request of that task for the resource the usage stands for.
OnePerTask(us) ==
    /\ Len(us) = sys.num_rsrc
    /\ \A r \in 1 .. Len(us) :
          \A al \in AccessLists(sys.kind, us[r]) :
              /\ Len(al[2]) = num_tasks(sys)
              /\ { al[2][i].task : i \in 1 .. Len(al[2]) } = 0 .. num_tasks(sys) - 1
              /\ \A i \in 1 .. Len(al[2]) :
                    al[2][i].req = StoredRequest(al[2][i].task, r, al[1])

\* C26: by_rsrc returns one usage per resource, in resource order, each list
\* of it holding the entry of task t at position t with the stored request of
\* cell (t, r); the sort of run permutes each list, keeping one entry per task
\* and the resource order, so that the zip of a task's requests with the
\* usages pairs the cell and the usage of the same resource.
C26_ByRsrcTranspose ==
    /\ ByRsrcReturned =>
          /\ ~ret.panic
          /\ OnePerTask(ret.val)
          /\ \A r \in 1 .. Len(ret.val) :
                \A al \in AccessLists(sys.kind, ret.val[r]) :
                    \A i \in 1 .. Len(al[2]) : al[2][i].task = i - 1
    /\ pc = "pass" =>
          /\ OnePerTask(by_rsrc)
          /\ \A t \in 0 .. num_tasks(sys) - 1 :
                /\ Len(Zip(reqs_by(sys, t), by_rsrc)) = sys.num_rsrc
                /\ \A r \in 1 .. sys.num_rsrc :
                      Zip(reqs_by(sys, t), by_rsrc)[r] = <<Cell(t, r), by_rsrc[r]>>

\* by_rsrc returned on two resources, the second one requested by task 1 only.
C26_Witness ==
    /\ ByRsrcReturned
    /\ sys.num_rsrc = 2
    /\ StoredRequest(1, 2, IF sys.kind = "Rw" THEN "write" ELSE "mutex").num > 0
    /\ \A al \in AccessLists(sys.kind, ret.val[1]) : al[2][2].req.num = 0

\* ------------------------------------------------------------------- C27
\* The longest read of another task on resource r, 0 when there is none.
LongestRead(t, r) ==
    LET ls == { Cell(i, r).read.length : i \in AllTasks \ {t} } IN
    IF ls = {} THEN 0 ELSE CHOOSE l \in ls : \A k \in ls : k <= l

OnlyReads(t) == \A r \in 1 .. sys.num_rsrc : Cell(t, r).write.num = 0

\* The readers charged to the reads of task t on resource r: one read less
\* one time unit per read, nothing when no other task reads.
ReadsCharged(t, r) ==
    IF Cell(t, r).read.num > 0 /\ LongestRead(t, r) > 0
    THEN Bound(Cell(t, r).read.num, Cell(t, r).read.num * (LongestRead(t, r) - 1))
    ELSE BoundDefault

RunSubtractions ==
    UNION { pass_subs(an, t, sys, by_rsrc) : t \in AllTasks }

SitesOf(subs) == { x.site : x \in subs }

C28_WitnessMutex ==
    /\ pc = "post"
    /\ an = GlobalOm(1)
    /\ {"omlp.rs:35", "sharing.rs:172"} \subseteq SitesOf(RunSubtractions)

\* ------------------------------------------------------------------- C29
AllDefault(o) == \A i \in 1 .. Len(o) : o[i] = ObliviousDataDefault

\* C29: on a single CPU the read/write analyzers report no interference:
\* every pass of RW-OLP-F and CRW-OMLP returns arrival = total = (0, 0), and
\* run returns (0, 0) for every task, the post of CRW-OMLP leaving every
\* total at (0, 0).
C29_SingleCpuRw ==
    (sys.kind = "Rw" /\ an.num_cpus = 1) =>
        /\ pc \in {"pass", "post"} => AllDefault(out)
        /\ RunReturned =>
               /\ Len(ret.val) = num_tasks(sys)
               /\ AllDefault(ret.val)

\* CRW-OMLP has returned on one CPU for three tasks that read and write the
\* same resource.
C29_Witness ==
    /\ RunReturned
    /\ sys.kind = "Rw"
    /\ an = SingleClusterOm(1)
    /\ num_tasks(sys) = 3
    /\ \A t \in AllTasks : Cell(t, 1).read.num > 0 /\ Cell(t, 1).write.num > 0
    /\ AllDefault(ret.val)

\* RW-OLP-F has returned on one CPU for tasks that read and write.
C29_WitnessOlpf ==
    /\ RunReturned
    /\ sys.kind = "Rw"
    /\ an = OptimalFIFO(1)
    /\ num_tasks(sys) >= 2
    /\ \A t \in AllTasks : Cell(t, 1).read.num > 0 /\ Cell(t, 1).write.num > 0

\* ------------------------------------------------------------------- C30
\* What mutex OLP-F computes for task t on the same number of CPUs and the
\* same usage.
OlpfTotal(t) == OptimalFIFO_pass(OptimalFIFO(an.num_cpus), t, sys, by_rsrc).total

\* C30: for every mutex System and every m >= 1 the total of C-OMLP's pass
\* equals, task by task, the total of mutex OLP-F for the same m; the post of
\* C-OMLP only adds to it, so that the final total of C-OMLP is never smaller
\* than OLP-F's, in count or in length.
C30_ComlpRefinesOlpf ==
    /\ [](InPasses("Mutex", "SingleClusterOm") =>
            \A t \in Passed : At(out, t).total = OlpfTotal(t))
    /\ [][(pc = "post" /\ sys.kind = "Mutex" /\ an.struct = "SingleClusterOm") =>
            /\ Len(out') = num_tasks(sys)
            /\ \A t \in AllTasks : BoundBelow(OlpfTotal(t), At(out', t).total)]_vars

\* Two CPUs and three tasks with one request of length 10 each: the pass of
\* C-OMLP gives task 0 one request of 10, as OLP-F does.
C30_Witness ==
    /\ InPasses("Mutex", "SingleClusterOm")
    /\ pc = "post"
    /\ an.num_cpus = 2
    /\ ThreeTasksOneRequest
    /\ At(out, 0).total = Bound(1, 10)
    /\ OlpfTotal(0) = Bound(1, 10)

\* The same run has returned, the donation added on top of the pass total.
C30_WitnessFinal ==
    /\ RunReturned
    /\ an = SingleClusterOm(2)
    /\ ThreeTasksOneRequest
    /\ At(ret.val, 0).total.length > 10

====
